---- MODULE Spec2Model ----
(***************************************************************************)
(* A model of just_ff's FFmpegQueueRunner (src/just_ff/queues.py) and of   *)
(* the part of run_ffmpeg_with_progress (src/just_ff/process.py) that      *)
(* decides a job's outcome.                                                *)
(*                                                                         *)
(* Two Python threads share one runner.  Every action is one statement of  *)
(* the source (named by its line) executed by one thread; a thread switch  *)
(* can happen between any two of them.  The external ffmpeg process of a   *)
(* job is a third party that exits on its own.                             *)
(*                                                                         *)
(*   Spec      the usage the library is documented for: thread "drv" is    *)
(*             the only one that starts run_queue; thread "ctl" adds jobs, *)
(*             cancels, clears, and calls run_queue only while a run is    *)
(*             already in progress (the misuse that raises).               *)
(*   SpecRace  both threads add jobs and call run_queue at any time.       *)
(***************************************************************************)
EXTENDS Integers, Sequences, FiniteSets, TLC

\* ----------------------------------------------------------------- bounds
\* Number of jobs ever created by add_job.
MaxJobs == 3
\* Number of run_queue calls a thread makes that get past the running check.
MaxRuns == 2
\* The same in the specifications that record more history or race two drives.
MaxWatchedRuns == 1
\* Number of jobs created where two drives race.
MaxRaceJobs == 2

\* Number of jobs created where the callbacks are recorded.
MaxCallbackJobs == 2
\* Number of progress values delivered per job where the callbacks are recorded.
MaxProgress == 2
MaxLines == 3
MaxLiveJobs == 2
\* Number of jobs created where cancel requests of an earlier run are watched.
MaxStaleJobs == 2
\* Number of jobs created where the job a cancel call aims at is watched.
MaxTargetJobs == 2
\* Number of jobs created where add_job is given any builder.
MaxAddJobs == 2
\* Where the standard output of the process is watched: the lines it prints on
\* stderr, the chunks it writes to stdout, and the chunks the stdout pipe holds
\* before a write to it blocks.
MaxStdoutLines == 1
MaxStdoutChunks == 2
PipeCapacity == 1

Threads == {"drv", "ctl"}
JobIds == 1 .. MaxJobs
\* Python's None where a job is expected.
None == 0

VARIABLES
    \* --- FFmpegQueueRunner fields (queues.py 51-61) ---
    pending_queue,                \* deque of jobs, head first
    processed_jobs,               \* list of jobs
    active_job,                   \* a job or None
    current_job_index_in_run,
    is_running,
    stop_on_error,
    cancel_current_job_requested,
    cancel_queue_requested,
    \* --- FFmpegJob fields (queues.py 24-27), one entry per job ---
    nJobs,                        \* jobs created so far: 1 .. nJobs exist
    status,
    result,
    error_message,
    internal_process,             \* TRUE iff _internal_process is not None
    duration_sec,                 \* the duration hint (queues.py 19)
    \* --- the callbacks the runner was constructed with (queues.py 63-69) ---
    on_job_progress,              \* TRUE iff on_job_progress is not None
    \* --- the OS process of each job ---
    proc,                         \* "none", "alive", "terminated" (alive, SIGTERM
                                  \* sent), "exited"
    exit_code,
    \* --- per thread: position, current call, locals, last outcome ---
    pc,
    op,
    job,                          \* the local 'job' / the job object read
    soe,                          \* run_queue's stop_on_error argument
    count,                        \* clear_pending_jobs' local 'count'
    exc,                          \* the exception in flight, "None" if none
    ret,
    \* --- history (not program state) ---
    started,                      \* builder.run was invoked for the job
    job_completes,                \* on_job_complete calls made for the job
    runs,                         \* run_queue calls made, per thread
    hist,                         \* what happened since drv's last run_queue call
    watch,                         \* which part of hist this specification records
    \* --- run_ffmpeg_with_progress (process.py 122-295) ---
    progress_duration_sec,        \* duration_sec argument, seconds
    output,                       \* the lines the process prints on stderr
    written,                      \* how many of them it has written to the pipe
    process_returncode,           \* process.poll(): -1 for None, else the exit code
    stderr_thread_alive,          \* stderr_thread.is_alive()
    nread,                        \* lines read_stderr has taken from the pipe
    stderr_lines,                 \* list shared by read_stderr and the main loop
    processed_lines,              \* local copy made at line 218
    last_progress_pct,            \* thousandths of a percent
    delivered,                    \* percentages passed to progress_callback
    examined,                     \* numbers of the lines the two for loops were given
    exit_code_waited,             \* exit_code = process.wait(): -1 before line 251
    run_result,                   \* "None", "True" or the exception raised
    ppc,                          \* position of the main thread
    stdout_todo,                  \* chunks the process has still to write to stdout
    stdout_pipe                   \* chunks in the stdout pipe (stdout=PIPE, line 176)

runnerVars == <<pending_queue, processed_jobs, active_job, current_job_index_in_run,
                is_running, stop_on_error, cancel_current_job_requested,
                cancel_queue_requested>>
jobVars == <<nJobs, status, result, error_message, internal_process>>
procVars == <<proc, exit_code>>
localVars == <<op, job, soe, count, exc>>
histVars == <<started, job_completes, runs, hist, watch>>
setupVars == <<duration_sec, on_job_progress>>
progressVars == <<progress_duration_sec, output, written, process_returncode,
                  stderr_thread_alive, nread, stderr_lines, processed_lines,
                  last_progress_pct, delivered, examined, exit_code_waited,
                  run_result, ppc, stdout_todo, stdout_pipe>>
stdoutVars == <<stdout_todo, stdout_pipe>>
queueVars == <<runnerVars, jobVars, procVars, pc, localVars, ret, histVars, setupVars>>
vars == <<queueVars, progressVars>>

\* ---------------------------------------------------------------- helpers
Head1(s) == s[1]
Tail1(s) == SubSeq(s, 2, Len(s))
Range(s) == {s[i] : i \in 1 .. Len(s)}

NoRet == [op |-> "none", kind |-> "none", jobs |-> <<>>, value |-> "None", n |-> 0]
Returned(o, v) == [op |-> o, kind |-> "return", jobs |-> <<>>, value |-> v, n |-> 0]
ReturnedJobs(o, js) == [op |-> o, kind |-> "return", jobs |-> js, value |-> "list", n |-> 0]
ReturnedCount(o, k) == [op |-> o, kind |-> "return", jobs |-> <<>>, value |-> "int", n |-> k]
Raised(o, e) == [op |-> o, kind |-> "raise", jobs |-> <<>>, value |-> e, n |-> 0]

\* A run_queue call of thread "drv" is in progress.
InRun == pc["drv"] # "idle" /\ op["drv"] = "run_queue"

NoHist == [snap |-> <<>>, n0 |-> 0, cancelCalled |-> FALSE, addCalled |-> FALSE,
           cancelQueueSet |-> FALSE, cleared |-> FALSE, pendAtCancel |-> {},
           pendAtCancelQueue |-> {}, log |-> <<>>, cbRaised |-> FALSE,
           clearIdle |-> FALSE, clearRuns |-> 0, cqReturned |-> FALSE,
           cqAgain |-> FALSE, cancelTrue |-> {}, staleCurrent |-> FALSE,
           staleQueue |-> FALSE, inflight |-> FALSE, checked |-> None,
           flagged |-> None]

\* Thread "drv" calls run_queue: the history starts again with the queue as it
\* is.  Where stale requests are watched it also keeps what earlier cancel calls
\* left behind: the cancel-current flag still set, the cancel-queue flag still
\* set though the earlier run did not stop on error (so that a cancel_queue
\* call set it), and whether a cancel call of thread "ctl" is still executing.
RunStart ==
    [NoHist EXCEPT !.snap = pending_queue, !.n0 = nJobs,
                   !.staleCurrent = watch = "stale" /\ cancel_current_job_requested,
                   !.staleQueue = /\ watch = "stale"
                                  /\ cancel_queue_requested
                                  /\ ~stop_on_error,
                   !.inflight = watch = "stale" /\ pc["ctl"] # "idle"]

\* The updates of hist; each specification records the part it watches.
SawCancelCall(h) ==
    IF InRun /\ watch \in {"calls", "stale"} THEN [h EXCEPT !.cancelCalled = TRUE] ELSE h
SawAddCall(h) ==
    IF InRun /\ watch = "calls" THEN [h EXCEPT !.addCalled = TRUE] ELSE h
SawCancelMade(h) ==
    IF InRun /\ watch = "cancel"
    THEN [h EXCEPT !.pendAtCancel = @ \cup Range(pending_queue)] ELSE h
SawCancelQueueSet(h) ==
    IF watch = "cancel" THEN [h EXCEPT !.cancelQueueSet = TRUE] ELSE h
\* clear_pending_jobs is called: whether thread "drv" is outside run_queue,
\* and how many run_queue calls it has made.
SawClearCall(h) ==
    IF watch = "clear"
    THEN [h EXCEPT !.clearIdle = (pc["drv"] = "idle"), !.clearRuns = runs["drv"]]
    ELSE h
SawCancelQueueReturn(h) ==
    IF InRun /\ watch = "cancel_queue"
    THEN [h EXCEPT !.pendAtCancelQueue = @ \cup Range(pending_queue),
                   !.cqReturned = TRUE]
    ELSE h
\* cancel_current_job returns v: the job that is active when it returns True.
SawCancelTrue(h, v) ==
    IF watch = "live" /\ v = "True" /\ active_job # None
    THEN [h EXCEPT !.cancelTrue = @ \cup {active_job}]
    ELSE h
\* cancel_current_job passes its check of line 270: the job that is active.
SawCheckPassed(h) ==
    IF watch = "target" THEN [h EXCEPT !.checked = active_job] ELSE h
\* cancel_current_job sets its flag at line 275: the job that is active.
SawFlagSet(h) ==
    IF watch = "target" THEN [h EXCEPT !.flagged = active_job] ELSE h
\* Thread t calls cancel_queue while the runner is running: whether the call
\* it made just before was a cancel_queue that returned during the same run.
SawCancelQueueCall(h, t) ==
    IF watch = "cancel_queue"
    THEN [h EXCEPT !.cqAgain = /\ is_running
                                /\ h.cqReturned
                                /\ ret[t] = Returned("cancel_queue", "None")]
    ELSE h

\* A callback the runner invokes: its name, the index argument and the job
\* argument (0 and None for the two queue callbacks).
Event(c, i, j) == [cb |-> c, idx |-> i, job |-> j]
\* What a callback does to its caller: it returns, or it raises an Exception.
CallbackOutcomes == IF watch = "callbacks" THEN {"ok", "raise"} ELSE {"ok"}
\* The callback c(i, j) was invoked and ended with outcome r.
Called(h, c, i, j, r) ==
    IF watch = "callbacks"
    THEN [h EXCEPT !.log = Append(@, Event(c, i, j)),
                   !.cbRaised = @ \/ r = "raise"]
    ELSE h
\* The progress values delivered for job j so far.
Delivered(h, j) ==
    Cardinality({i \in 1 .. Len(h.log) :
                   h.log[i].cb = "on_job_progress" /\ h.log[i].job = j})

\* A duration hint: None, or a number of seconds.
NoDuration == [given |-> FALSE, sec |-> 0]
Seconds(n) == [given |-> TRUE, sec |-> n]
DurationHints == {NoDuration, Seconds(-1), Seconds(0), Seconds(10)}
\* process.py 154: not (duration_sec is None or duration_sec <= 0).
DurationUsable(d) == d.given /\ d.sec > 0

\* process.poll() is None.
Alive(j) == proc[j] \in {"alive", "terminated"}
\* process.terminate(): a signal to a live process, nothing after its exit.
Terminate(j) == IF Alive(j) THEN [proc EXCEPT ![j] = "terminated"] ELSE proc

\* The run_queue calls a thread may make in this specification.
RunsAllowed == IF watch \in {"none", "calls", "stale"} THEN MaxRuns ELSE MaxWatchedRuns
\* The jobs add_job may create in this specification.
JobsAllowed ==
    IF watch \in {"callbacks", "config"} THEN MaxCallbackJobs
    ELSE IF watch = "live" THEN MaxLiveJobs
    ELSE IF watch = "stale" THEN MaxStaleJobs
    ELSE IF watch = "target" THEN MaxTargetJobs
    ELSE IF watch = "add" THEN MaxAddJobs
    ELSE MaxJobs
\* The builder add_job is given in this specification: an FFmpegCommandBuilder
\* with an output, one that has no output yet, or an object of another type.
\* The builder is the caller's object, which can be given an output after the
\* call, so a job added with no output may or may not fail when it is run.
BuildersGiven ==
    IF watch = "add" THEN {"builder", "no_outputs", "not_a_builder"}
    ELSE {"builder"}
\* The duration hints add_job is given in this specification.
HintsGiven == IF watch = "config" THEN DurationHints ELSE {Seconds(10)}

Goto(t, l) == pc' = [pc EXCEPT ![t] = l]

\* ---------------------------------------- run_ffmpeg_with_progress inputs
\* A stderr line is a progress line carrying time= in hundredths of a second
\* (PROGRESS_RE matches digits, ':' and '.' only, so no negative time), or a
\* line that PROGRESS_RE does not match or whose time does not parse.
Noise == [progress |-> FALSE, time |-> 0]
ProgressLine(cs) == [progress |-> TRUE, time |-> cs]
Times == {0, 1000, 1001, 2000, 3000}
Durations == {10, 20}
Lines == {Noise} \cup {ProgressLine(cs) : cs \in Times}
Outputs == UNION {[1 .. n -> Lines] : n \in 0 .. MaxLines}
\* The stderr outputs where the standard output is watched.
StdoutOutputs == UNION {[1 .. n -> Lines] : n \in 0 .. MaxStdoutLines}
Polling == -1

Min(a, b) == IF a < b THEN a ELSE b
Max(a, b) == IF a > b THEN a ELSE b

\* Percentage without the clamp of min and max.
PercentageUnclamped(cs, d) == (cs * 1000) \div d

\* process.py 230, in thousandths of a percent: with the durations above
\* (cs / 100) / d * 100 is a whole number of thousandths.
Percentage(cs, d) == Min(100000, Max(0, (cs * 1000) \div d))

\* Every parsed percentage is sent.
SendAny(percentage, last, final) == TRUE

\* process.py 232 in the loop, 266 after it.
Send(percentage, last, final) ==
    IF final THEN percentage > last
    ELSE percentage >= last + 100 \/ percentage = 100000

\* process.py 221-237 and 255-271: the lines are parsed in order; st is
\* last_progress_pct and the percentages passed to progress_callback.  An
\* exception of the callback is caught (235, 269) and last_progress_pct is
\* set all the same.
\* The k-th line of the output as read_stderr appends it: the text, and k to
\* tell the line from others of the same text.
Read(k) == [n |-> k, text |-> output[k]]
Numbers(lines) == [i \in 1 .. Len(lines) |-> lines[i].n]

RECURSIVE ParseLines(_, _, _, _)
ParseLines(lines, d, st, final) ==
    IF lines = <<>> THEN st
    ELSE LET line == lines[1].text
             percentage == Percentage(line.time, d)
             next == IF line.progress /\ Send(percentage, st.last, final)
                     THEN [last |-> percentage, sent |-> Append(st.sent, percentage)]
                     ELSE st
         IN  ParseLines(Tail(lines), d, next, final)

\* The thread leaves its call: back to idle with an outcome, locals dropped.
Leave(t, r) ==
    /\ pc' = [pc EXCEPT ![t] = "idle"]
    /\ ret' = [ret EXCEPT ![t] = r]
    /\ op' = [op EXCEPT ![t] = "none"]
    /\ job' = [job EXCEPT ![t] = None]
    /\ count' = [count EXCEPT ![t] = 0]
    /\ exc' = [exc EXCEPT ![t] = "None"]
    /\ soe' = soe

Init ==
    /\ pending_queue = <<>>
    /\ processed_jobs = <<>>
    /\ active_job = None
    /\ current_job_index_in_run = -1
    /\ is_running = FALSE
    /\ stop_on_error = TRUE
    /\ cancel_current_job_requested = FALSE
    /\ cancel_queue_requested = FALSE
    /\ nJobs = 0
    /\ status = [j \in JobIds |-> "pending"]
    /\ result = [j \in JobIds |-> "None"]
    /\ error_message = [j \in JobIds |-> "None"]
    /\ internal_process = [j \in JobIds |-> FALSE]
    /\ proc = [j \in JobIds |-> "none"]
    /\ exit_code = [j \in JobIds |-> 0]
    /\ pc = [t \in Threads |-> "idle"]
    /\ op = [t \in Threads |-> "none"]
    /\ job = [t \in Threads |-> None]
    /\ soe = [t \in Threads |-> TRUE]
    /\ count = [t \in Threads |-> 0]
    /\ exc = [t \in Threads |-> "None"]
    /\ ret = [t \in Threads |-> NoRet]
    /\ started = [j \in JobIds |-> FALSE]
    /\ job_completes = [j \in JobIds |-> 0]
    /\ runs = [t \in Threads |-> 0]
    /\ hist = NoHist
    /\ watch \in {"none", "calls", "cancel", "cancel_queue", "race", "callbacks", "config",
                  "progress", "clear", "live", "stale", "target",
                  "add", "stdout"}
    /\ duration_sec = [j \in JobIds |-> NoDuration]
    /\ on_job_progress \in (IF watch = "config" THEN BOOLEAN ELSE {TRUE})
    /\ progress_duration_sec \in (IF watch \in {"progress", "stdout"} THEN Durations
                                  ELSE {10})
    /\ output \in (IF watch = "progress" THEN Outputs
                   ELSE IF watch = "stdout" THEN StdoutOutputs
                   ELSE {<<>>})
    /\ written = 0
    /\ process_returncode = Polling
    /\ stderr_thread_alive = FALSE
    /\ nread = 0
    /\ stderr_lines = <<>>
    /\ processed_lines = <<>>
    /\ last_progress_pct = -1000
    /\ delivered = <<>>
    /\ examined = <<>>
    /\ exit_code_waited = Polling
    /\ run_result = "None"
    /\ ppc = IF watch \in {"progress", "stdout"} THEN "pg187" ELSE "off"
    /\ stdout_todo \in (IF watch = "stdout" THEN 0 .. MaxStdoutChunks ELSE {0})
    /\ stdout_pipe = 0

\* ------------------------------------------------------------ add_job
\* queues.py 71-90.  A builder that is no FFmpegCommandBuilder raises TypeError
\* at 84-85, before anything is changed.  Otherwise the job is created pending
\* and appended to the deque the running drive loop is reading (87-88; the
\* running check at line 79 only prints).  The print of line 89 formats the
\* job, FFmpegJob.__str__ (28-30) calls builder.build(), and build_list raises
\* CommandBuilderError for a builder with no outputs (command.py 357): the
\* exception leaves add_job with the job in the queue.
add_job(t) ==
    /\ pc[t] = "idle"
    /\ \E b \in BuildersGiven :
         IF b = "not_a_builder"
         THEN /\ ret' = [ret EXCEPT ![t] = Raised("add_job", "TypeError")]
              /\ UNCHANGED <<nJobs, duration_sec, pending_queue>>
         ELSE /\ nJobs < JobsAllowed
              /\ nJobs' = nJobs + 1
              /\ \E d \in HintsGiven :
                   duration_sec' = [duration_sec EXCEPT ![nJobs + 1] = d]
              /\ pending_queue' = Append(pending_queue, nJobs + 1)
              /\ ret' = [ret EXCEPT ![t] =
                           IF b = "no_outputs"
                           THEN Raised("add_job", "CommandBuilderError")
                           ELSE Returned("add_job", "job")]
    /\ hist' = SawAddCall(hist)
    /\ UNCHANGED <<processed_jobs, active_job, current_job_index_in_run, is_running,
                   stop_on_error, cancel_current_job_requested, cancel_queue_requested,
                   status, result, error_message, internal_process, procVars, pc,
                   localVars, started, job_completes, runs, watch, on_job_progress,
                   progressVars>>

\* ------------------------------------------------------------ run_queue
\* run_queue_104 with the running check placed after the flag resets of lines
\* 112-113: the rejected call clears both flags before it raises.
run_queue_104_resets_first(t, s) ==
    /\ pc[t] = "idle"
    /\ IF is_running
       THEN /\ ret' = [ret EXCEPT ![t] = Raised("run_queue", "RuntimeError")]
            /\ cancel_current_job_requested' = FALSE
            /\ cancel_queue_requested' = FALSE
            /\ UNCHANGED <<pc, op, soe, hist, runs>>
       ELSE /\ runs[t] < RunsAllowed
            /\ runs' = [runs EXCEPT ![t] = @ + 1]
            /\ Goto(t, "rq106")
            /\ hist' = IF t = "drv" THEN RunStart ELSE hist
            /\ op' = [op EXCEPT ![t] = "run_queue"]
            /\ soe' = [soe EXCEPT ![t] = s]
            /\ ret' = [ret EXCEPT ![t] = NoRet]
            /\ UNCHANGED <<cancel_current_job_requested, cancel_queue_requested>>
    /\ UNCHANGED <<pending_queue, processed_jobs, active_job, current_job_index_in_run,
                   is_running, stop_on_error, jobVars, procVars, job, count, exc,
                   started, job_completes, watch, setupVars, progressVars>>

\* queues.py 92 and 104-105: the call run_queue(stop_on_error=s) and its first
\* statement, if self._is_running: raise RuntimeError.
run_queue_104(t, s) ==
    /\ pc[t] = "idle"
    /\ IF is_running
       THEN /\ ret' = [ret EXCEPT ![t] = Raised("run_queue", "RuntimeError")]
            /\ UNCHANGED <<pc, op, soe, hist, runs>>
       ELSE /\ runs[t] < RunsAllowed
            /\ runs' = [runs EXCEPT ![t] = @ + 1]
            /\ Goto(t, "rq106")
            /\ hist' = IF t = "drv" THEN RunStart ELSE hist
            /\ op' = [op EXCEPT ![t] = "run_queue"]
            /\ soe' = [soe EXCEPT ![t] = s]
            /\ ret' = [ret EXCEPT ![t] = NoRet]
    /\ UNCHANGED <<runnerVars, jobVars, procVars, job, count, exc, started, job_completes, watch, setupVars, progressVars>>

\* run_queue_106 with on_queue_start invoked before the test of the queue.
run_queue_106_announces_first(t) ==
    /\ pc[t] = "rq106"
    /\ \E r \in CallbackOutcomes : hist' = Called(hist, "on_queue_start", 0, None, r)
    /\ IF pending_queue = <<>>
       THEN Leave(t, ReturnedJobs("run_queue", <<>>))
       ELSE Goto(t, "rq110") /\ UNCHANGED <<localVars, ret>>
    /\ UNCHANGED <<runnerVars, jobVars, procVars, started, job_completes, runs,
                   watch, setupVars, progressVars>>

\* queues.py 106-108: if not self._pending_queue: return [].
run_queue_106(t) ==
    /\ pc[t] = "rq106"
    /\ IF pending_queue = <<>>
       THEN Leave(t, ReturnedJobs("run_queue", <<>>))
       ELSE Goto(t, "rq110") /\ UNCHANGED <<localVars, ret>>
    /\ UNCHANGED <<runnerVars, jobVars, procVars, histVars, setupVars, progressVars>>

\* queues.py 110-111: self._is_running = True; self._stop_on_error = stop_on_error
\* (the second is read by run_queue alone).
run_queue_110(t) ==
    /\ pc[t] = "rq110"
    /\ is_running' = TRUE
    /\ stop_on_error' = soe[t]
    /\ Goto(t, "rq112")
    /\ UNCHANGED <<pending_queue, processed_jobs, active_job, current_job_index_in_run,
                   cancel_current_job_requested, cancel_queue_requested,
                   jobVars, procVars, localVars, ret, histVars, setupVars, progressVars>>

\* queues.py 112: self._cancel_current_job_requested = False.
run_queue_112(t) ==
    /\ pc[t] = "rq112"
    /\ cancel_current_job_requested' = FALSE
    /\ Goto(t, "rq113")
    /\ UNCHANGED <<pending_queue, processed_jobs, active_job, current_job_index_in_run,
                   is_running, stop_on_error, cancel_queue_requested,
                   jobVars, procVars, localVars, ret, histVars, setupVars, progressVars>>

\* run_queue_113 without the reset: _cancel_queue_requested keeps its value.
run_queue_113_keeps_flag(t) ==
    /\ pc[t] = "rq113"
    /\ Goto(t, "rq114")
    /\ UNCHANGED <<runnerVars, jobVars, procVars, localVars, ret, histVars,
                   setupVars, progressVars>>

\* queues.py 113: self._cancel_queue_requested = False.
run_queue_113(t) ==
    /\ pc[t] = "rq113"
    /\ cancel_queue_requested' = FALSE
    /\ Goto(t, "rq114")
    /\ UNCHANGED <<pending_queue, processed_jobs, active_job, current_job_index_in_run,
                   is_running, stop_on_error, cancel_current_job_requested,
                   jobVars, procVars, localVars, ret, histVars, setupVars, progressVars>>

\* run_queue_114 without lines 120-124: on_queue_start is never invoked.
run_queue_114_no_queue_start(t) ==
    /\ pc[t] = "rq114"
    /\ processed_jobs' = <<>>
    /\ current_job_index_in_run' = 0
    /\ Goto(t, "rq126")
    /\ UNCHANGED <<pending_queue, active_job, is_running, stop_on_error,
                   cancel_current_job_requested, cancel_queue_requested,
                   jobVars, procVars, localVars, ret, histVars, setupVars, progressVars>>

\* queues.py 114-115: self._processed_jobs.clear(); index = 0.
run_queue_114(t) ==
    /\ pc[t] = "rq114"
    /\ processed_jobs' = <<>>
    /\ current_job_index_in_run' = 0
    /\ \E r \in CallbackOutcomes : hist' = Called(hist, "on_queue_start", 0, None, r)
    /\ Goto(t, "rq126")
    /\ UNCHANGED <<pending_queue, active_job, is_running, stop_on_error,
                   cancel_current_job_requested, cancel_queue_requested,
                   jobVars, procVars, localVars, ret,
                   started, job_completes, runs, watch, setupVars, progressVars>>

\* queues.py 126: while self._pending_queue.
run_queue_126(t) ==
    /\ pc[t] = "rq126"
    /\ Goto(t, IF pending_queue # <<>> THEN "rq127" ELSE "rq235")
    /\ UNCHANGED <<runnerVars, jobVars, procVars, localVars, ret, histVars, setupVars, progressVars>>

\* run_queue_127 without the break: the loop ignores _cancel_queue_requested.
run_queue_127_no_break(t) ==
    /\ pc[t] = "rq127"
    /\ Goto(t, "rq131")
    /\ UNCHANGED <<runnerVars, jobVars, procVars, localVars, ret, histVars, setupVars, progressVars>>

\* queues.py 127-129: if self._cancel_queue_requested: break.
run_queue_127(t) ==
    /\ pc[t] = "rq127"
    /\ Goto(t, IF cancel_queue_requested THEN "rq235" ELSE "rq131")
    /\ UNCHANGED <<runnerVars, jobVars, procVars, localVars, ret, histVars, setupVars, progressVars>>

\* queues.py 131: job = self._pending_queue.popleft().  popleft on a deque that
\* was emptied meanwhile raises IndexError, which nothing in run_queue catches.
run_queue_131(t) ==
    /\ pc[t] = "rq131"
    /\ IF pending_queue = <<>>
       THEN /\ Leave(t, Raised("run_queue", "IndexError"))
            /\ UNCHANGED pending_queue
       ELSE /\ pending_queue' = Tail1(pending_queue)
            /\ job' = [job EXCEPT ![t] = Head1(pending_queue)]
            /\ Goto(t, "rq132")
            /\ UNCHANGED <<op, soe, count, exc, ret>>
    /\ UNCHANGED <<processed_jobs, active_job, current_job_index_in_run, is_running,
                   stop_on_error, cancel_current_job_requested, cancel_queue_requested,
                   jobVars, procVars, histVars, setupVars, progressVars>>

\* queues.py 132-133: self._active_job = job; self._processed_jobs.append(job)
\* (the list is touched by run_queue alone).
run_queue_132(t) ==
    /\ pc[t] = "rq132"
    /\ active_job' = job[t]
    /\ processed_jobs' = Append(processed_jobs, job[t])
    /\ Goto(t, "rq136")
    /\ UNCHANGED <<pending_queue, current_job_index_in_run, is_running,
                   stop_on_error, cancel_current_job_requested, cancel_queue_requested,
                   jobVars, procVars, localVars, ret, histVars, setupVars, progressVars>>

\* queues.py 136-138: self._cancel_current_job_requested = False;
\* job.status = "preparing".
run_queue_136(t) ==
    /\ pc[t] = "rq136"
    /\ cancel_current_job_requested' = FALSE
    /\ status' = [status EXCEPT ![job[t]] = "preparing"]
    /\ \E r \in CallbackOutcomes :
         hist' = Called(hist, "on_job_start", current_job_index_in_run, job[t], r)
    /\ Goto(t, "rq147")
    /\ UNCHANGED <<pending_queue, processed_jobs, active_job, current_job_index_in_run,
                   is_running, stop_on_error, cancel_queue_requested,
                   nJobs, result, error_message, internal_process,
                   procVars, localVars, ret,
                   started, job_completes, runs, watch, setupVars, progressVars>>

\* What builder.run raises for a job with duration hint d before a process
\* exists, by the handler of run_queue that catches it.  "FfmpegWrapperError"
\* (queues.py 196): no outputs defined (CommandBuilderError, command.py 357)
\* and ffmpeg not found (FfmpegExecutableNotFoundError, process.py 289-290),
\* both subclasses of FfmpegWrapperError.  "TypeError" (queues.py 203): a
\* duration that is None or <= 0, because run_queue always passes a progress
\* callback (queues.py 180, process.py 154-156).
\* Under watch "config" the wrapper errors are told apart; the check of the
\* duration (process.py 154) comes after build_list and before Popen.
BuildErrors ==
    IF watch = "config" THEN {"CommandBuilderError", "FfmpegWrapperError"}
    ELSE {"FfmpegWrapperError"}
PopenErrors ==
    IF watch = "config" THEN {"FfmpegExecutableNotFoundError"} ELSE {}
LaunchErrors(d) ==
    BuildErrors \cup (IF DurationUsable(d) THEN PopenErrors ELSE {"TypeError"})

\* Exit codes of the process: 0, or anything else.
ExitCodes == {0, 1}

\* run_queue_147 setting the status back to "pending".
run_queue_147_pending_again(t) ==
    /\ pc[t] = "rq147"
    /\ status' = [status EXCEPT ![job[t]] = "pending"]
    /\ Goto(t, "rq178")
    /\ UNCHANGED <<runnerVars, nJobs, result, error_message, internal_process,
                   procVars, localVars, ret, histVars, setupVars, progressVars>>

\* queues.py 147: job.status = "running".
run_queue_147(t) ==
    /\ pc[t] = "rq147"
    /\ status' = [status EXCEPT ![job[t]] = "running"]
    /\ Goto(t, "rq178")
    /\ UNCHANGED <<runnerVars, nJobs, result, error_message, internal_process,
                   procVars, localVars, ret, histVars, setupVars, progressVars>>

\* queues.py 178-183 into command.py 380-392 and process.py 151-184:
\* job.builder.run(...) either raises before launch or Popen starts the
\* process; an unusable duration always raises, whatever on_job_progress is.
run_queue_178(t) ==
    /\ pc[t] = "rq178"
    /\ started' = [started EXCEPT ![job[t]] = TRUE]
    /\ \/ \E e \in LaunchErrors(duration_sec[job[t]]) :
            /\ exc' = [exc EXCEPT ![t] = e]
            /\ Goto(t, "rq188")
            /\ UNCHANGED proc
       \/ /\ DurationUsable(duration_sec[job[t]])
          /\ proc' = [proc EXCEPT ![job[t]] = "alive"]
          /\ Goto(t, "pr187")
          /\ UNCHANGED exc
    /\ UNCHANGED <<runnerVars, jobVars, exit_code, op, job, soe, count,
                   ret, job_completes, runs, hist, watch, setupVars, progressVars>>

\* process.py 187-188 calling queues.py 169-170 (_job_process_callback):
\* job._internal_process = process.
job_process_callback(t) ==
    /\ pc[t] = "pr187"
    /\ internal_process' = [internal_process EXCEPT ![job[t]] = TRUE]
    /\ \E r \in CallbackOutcomes :
         hist' = Called(hist, "on_job_process_created", current_job_index_in_run,
                        job[t], r)
    /\ Goto(t, "pr214")
    /\ UNCHANGED <<runnerVars, nJobs, status, result, error_message, procVars,
                   localVars, ret, started, job_completes, runs, watch, setupVars, progressVars>>

\* process.py 214-245, one delivery of progress: process.py 234 calls queues.py
\* 151-166 (_job_progress_callback), which terminates the live process when a
\* cancellation flag is set.
job_progress_callback(t) ==
    /\ pc[t] = "pr214"
    /\ watch = "callbacks" => Delivered(hist, job[t]) < MaxProgress
    /\ IF on_job_progress
       THEN \E r \in CallbackOutcomes :
              hist' = Called(hist, "on_job_progress", current_job_index_in_run,
                             job[t], r)
       ELSE hist' = hist
    /\ proc' =
         IF /\ cancel_current_job_requested \/ cancel_queue_requested
            /\ internal_process[job[t]]
         THEN Terminate(job[t])
         ELSE proc
    /\ UNCHANGED <<runnerVars, jobVars, exit_code, pc, localVars, ret,
                   started, job_completes, runs, watch, setupVars, progressVars>>

\* process.py 214 and 247-287: the loop ends once the process has exited and its
\* stderr is drained; wait() yields the exit code; 0 returns True, anything
\* else raises FfmpegProcessError.
run_ffmpeg_251(t) ==
    /\ pc[t] = "pr214"
    /\ proc[job[t]] = "exited"
    /\ IF exit_code[job[t]] = 0
       THEN Goto(t, "rq184") /\ UNCHANGED exc
       ELSE Goto(t, "rq188") /\ exc' = [exc EXCEPT ![t] = "FfmpegProcessError"]
    /\ UNCHANGED <<runnerVars, jobVars, procVars, op, job, soe, count, ret, histVars, setupVars, progressVars>>

\* The ffmpeg process of job j exits on its own, with any exit code.  After a
\* terminate() it still may exit 0 when it had finished before the signal
\* took effect.
process_exit(j) ==
    /\ Alive(j)
    /\ proc' = [proc EXCEPT ![j] = "exited"]
    /\ \E c \in ExitCodes : exit_code' = [exit_code EXCEPT ![j] = c]
    /\ UNCHANGED <<runnerVars, jobVars, pc, localVars, ret, histVars, setupVars, progressVars>>

\* run_queue_184 without line 186: job.result is left None.
run_queue_184_no_result(t) ==
    /\ pc[t] = "rq184"
    /\ status' = [status EXCEPT ![job[t]] = "completed"]
    /\ Goto(t, "rq211")
    /\ UNCHANGED <<runnerVars, nJobs, result, error_message, internal_process,
                   procVars, localVars, ret, histVars, setupVars, progressVars>>

\* queues.py 184-186: job.status = "completed"; job.result = True.
run_queue_184(t) ==
    /\ pc[t] = "rq184"
    /\ status' = [status EXCEPT ![job[t]] = "completed"]
    /\ result' = [result EXCEPT ![job[t]] = "True"]
    /\ Goto(t, "rq211")
    /\ UNCHANGED <<runnerVars, nJobs, error_message, internal_process, procVars,
                   localVars, ret, histVars, setupVars, progressVars>>

\* run_queue_188 without the test of _stop_on_error: every failure requests
\* the cancellation of the queue.
run_queue_188_always_stops(t) ==
    /\ pc[t] = "rq188"
    /\ status' = [status EXCEPT ![job[t]] = "failed"]
    /\ result' = [result EXCEPT ![job[t]] = exc[t]]
    /\ error_message' = [error_message EXCEPT ![job[t]] = "str(e)"]
    /\ exc' = [exc EXCEPT ![t] = "None"]
    /\ cancel_queue_requested' = TRUE
    /\ Goto(t, "rq211")
    /\ UNCHANGED <<pending_queue, processed_jobs, active_job, current_job_index_in_run,
                   is_running, stop_on_error, cancel_current_job_requested,
                   nJobs, internal_process, procVars, op, job, soe, count, ret, histVars, setupVars, progressVars>>

\* run_queue_188 without the catch-all handler of lines 203-209: an exception
\* that is not an FfmpegWrapperError leaves run_queue.
run_queue_188_no_catch_all(t) ==
    /\ pc[t] = "rq188"
    /\ IF exc[t] = "TypeError"
       THEN /\ Leave(t, Raised("run_queue", exc[t]))
            /\ UNCHANGED <<status, result, error_message, cancel_queue_requested>>
       ELSE /\ status' = [status EXCEPT ![job[t]] = "failed"]
            /\ result' = [result EXCEPT ![job[t]] = exc[t]]
            /\ error_message' = [error_message EXCEPT ![job[t]] = "str(e)"]
            /\ exc' = [exc EXCEPT ![t] = "None"]
            /\ cancel_queue_requested' =
                 IF stop_on_error THEN TRUE ELSE cancel_queue_requested
            /\ Goto(t, "rq211")
            /\ UNCHANGED <<op, job, soe, count, ret>>
    /\ UNCHANGED <<pending_queue, processed_jobs, active_job, current_job_index_in_run,
                   is_running, stop_on_error, cancel_current_job_requested,
                   nJobs, internal_process, procVars, histVars, setupVars, progressVars>>

\* run_queue_188 leaving the job as it is when a cancellation was requested,
\* so that line 220 finds it running.
run_queue_188_cancel_not_failure(t) ==
    /\ pc[t] = "rq188"
    /\ IF cancel_current_job_requested \/ cancel_queue_requested
       THEN UNCHANGED <<status, result, error_message>>
       ELSE /\ status' = [status EXCEPT ![job[t]] = "failed"]
            /\ result' = [result EXCEPT ![job[t]] = exc[t]]
            /\ error_message' = [error_message EXCEPT ![job[t]] = "str(e)"]
    /\ exc' = [exc EXCEPT ![t] = "None"]
    /\ cancel_queue_requested' = IF stop_on_error THEN TRUE ELSE cancel_queue_requested
    /\ Goto(t, "rq211")
    /\ UNCHANGED <<pending_queue, processed_jobs, active_job, current_job_index_in_run,
                   is_running, stop_on_error, cancel_current_job_requested,
                   nJobs, internal_process, procVars, op, job, soe, count, ret,
                   histVars, setupVars, progressVars>>

\* queues.py 188-195, 196-202, 203-209: each handler records the failure on the
\* job and, if self._stop_on_error, sets self._cancel_queue_requested.
run_queue_188(t) ==
    /\ pc[t] = "rq188"
    /\ status' = [status EXCEPT ![job[t]] = "failed"]
    /\ result' = [result EXCEPT ![job[t]] = exc[t]]
    /\ error_message' = [error_message EXCEPT ![job[t]] = "str(e)"]
    /\ exc' = [exc EXCEPT ![t] = "None"]
    /\ cancel_queue_requested' = IF stop_on_error THEN TRUE ELSE cancel_queue_requested
    /\ Goto(t, "rq211")
    /\ UNCHANGED <<pending_queue, processed_jobs, active_job, current_job_index_in_run,
                   is_running, stop_on_error, cancel_current_job_requested,
                   nJobs, internal_process, procVars, op, job, soe, count, ret, histVars, setupVars, progressVars>>

\* queues.py 211-218: a process still alive after run() is killed;
\* job._internal_process = None.
run_queue_211(t) ==
    /\ pc[t] = "rq211"
    /\ IF internal_process[job[t]] /\ Alive(job[t])
       THEN /\ proc' = [proc EXCEPT ![job[t]] = "exited"]
            /\ exit_code' = [exit_code EXCEPT ![job[t]] = 1]
       ELSE UNCHANGED <<proc, exit_code>>
    /\ internal_process' = [internal_process EXCEPT ![job[t]] = FALSE]
    /\ Goto(t, "rq220")
    /\ UNCHANGED <<runnerVars, nJobs, status, result, error_message,
                   localVars, ret, histVars, setupVars, progressVars>>

\* run_queue_220 with on_job_complete invoked outside a try: an exception of
\* the callback leaves run_queue.
run_queue_220_unguarded(t) ==
    /\ pc[t] = "rq220"
    /\ IF /\ cancel_current_job_requested \/ cancel_queue_requested
          /\ status[job[t]] \notin {"failed", "completed"}
       THEN /\ status' = [status EXCEPT ![job[t]] = "cancelled"]
            /\ error_message' =
                 [error_message EXCEPT ![job[t]] =
                    IF @ # "None" THEN @ ELSE "Job cancelled by user."]
       ELSE UNCHANGED <<status, error_message>>
    /\ job_completes' = [job_completes EXCEPT ![job[t]] = @ + 1]
    /\ \E r \in CallbackOutcomes :
         /\ hist' = Called(hist, "on_job_complete", current_job_index_in_run,
                           job[t], r)
         /\ IF r = "raise"
            THEN Leave(t, Raised("run_queue", "Exception"))
            ELSE Goto(t, "rq231") /\ UNCHANGED <<localVars, ret>>
    /\ UNCHANGED <<runnerVars, nJobs, result, internal_process, procVars,
                   started, runs, watch, setupVars, progressVars>>

\* run_queue_220 without the test of the job's status at line 220: a
\* cancellation flag makes the job cancelled whatever its run ended with.
run_queue_220_flag_wins(t) ==
    /\ pc[t] = "rq220"
    /\ IF cancel_current_job_requested \/ cancel_queue_requested
       THEN /\ status' = [status EXCEPT ![job[t]] = "cancelled"]
            /\ error_message' =
                 [error_message EXCEPT ![job[t]] =
                    IF @ # "None" THEN @ ELSE "Job cancelled by user."]
       ELSE UNCHANGED <<status, error_message>>
    /\ job_completes' = [job_completes EXCEPT ![job[t]] = @ + 1]
    /\ \E r \in CallbackOutcomes :
         hist' = Called(hist, "on_job_complete", current_job_index_in_run, job[t], r)
    /\ Goto(t, "rq231")
    /\ UNCHANGED <<runnerVars, nJobs, result, internal_process, procVars,
                   localVars, ret, started, runs, watch, setupVars, progressVars>>

\* queues.py 220-229: a job stopped by request that is neither failed nor
\* completed becomes cancelled; then on_job_complete(index, job).
run_queue_220(t) ==
    /\ pc[t] = "rq220"
    /\ IF /\ cancel_current_job_requested \/ cancel_queue_requested
          /\ status[job[t]] \notin {"failed", "completed"}
       THEN /\ status' = [status EXCEPT ![job[t]] = "cancelled"]
            /\ error_message' =
                 [error_message EXCEPT ![job[t]] =
                    IF @ # "None" THEN @ ELSE "Job cancelled by user."]
       ELSE UNCHANGED <<status, error_message>>
    /\ job_completes' = [job_completes EXCEPT ![job[t]] = @ + 1]
    /\ \E r \in CallbackOutcomes :
         hist' = Called(hist, "on_job_complete", current_job_index_in_run, job[t], r)
    /\ Goto(t, "rq231")
    /\ UNCHANGED <<runnerVars, nJobs, result, internal_process, procVars,
                   localVars, ret, started, runs, watch, setupVars, progressVars>>

\* run_queue_231 without line 232: the index is not advanced.
run_queue_231_same_index(t) ==
    /\ pc[t] = "rq231"
    /\ active_job' = None
    /\ Goto(t, "rq126")
    /\ UNCHANGED <<pending_queue, processed_jobs, current_job_index_in_run, is_running,
                   stop_on_error, cancel_current_job_requested, cancel_queue_requested,
                   jobVars, procVars, localVars, ret, histVars, setupVars, progressVars>>

\* queues.py 231-232: self._active_job = None; index += 1.
run_queue_231(t) ==
    /\ pc[t] = "rq231"
    /\ active_job' = None
    /\ current_job_index_in_run' = current_job_index_in_run + 1
    /\ Goto(t, "rq126")
    /\ UNCHANGED <<pending_queue, processed_jobs, is_running, stop_on_error,
                   cancel_current_job_requested, cancel_queue_requested,
                   jobVars, procVars, localVars, ret, histVars, setupVars, progressVars>>

\* run_queue_235 without the loop of lines 235-250: the jobs left after a
\* break stay in the pending queue.
run_queue_235_no_skip(t) ==
    /\ pc[t] = "rq235"
    /\ Goto(t, "rq252")
    /\ UNCHANGED <<runnerVars, jobVars, procVars, localVars, ret, histVars, setupVars, progressVars>>

\* queues.py 235: while self._pending_queue (the jobs left after a break).
run_queue_235(t) ==
    /\ pc[t] = "rq235"
    /\ Goto(t, IF pending_queue # <<>> THEN "rq236" ELSE "rq252")
    /\ UNCHANGED <<runnerVars, jobVars, procVars, localVars, ret, histVars, setupVars, progressVars>>

\* queues.py 236: job = self._pending_queue.popleft().
run_queue_236(t) ==
    /\ pc[t] = "rq236"
    /\ IF pending_queue = <<>>
       THEN /\ Leave(t, Raised("run_queue", "IndexError"))
            /\ UNCHANGED pending_queue
       ELSE /\ pending_queue' = Tail1(pending_queue)
            /\ job' = [job EXCEPT ![t] = Head1(pending_queue)]
            /\ Goto(t, "rq237")
            /\ UNCHANGED <<op, soe, count, exc, ret>>
    /\ UNCHANGED <<processed_jobs, active_job, current_job_index_in_run, is_running,
                   stop_on_error, cancel_current_job_requested, cancel_queue_requested,
                   jobVars, procVars, histVars, setupVars, progressVars>>

\* run_queue_237 without line 239: a skipped job is not appended to
\* _processed_jobs_in_run.
run_queue_237_no_append(t) ==
    /\ pc[t] = "rq237"
    /\ status' = [status EXCEPT ![job[t]] = "cancelled"]
    /\ error_message' = [error_message EXCEPT ![job[t]] =
                           "Queue processing was cancelled before this job started."]
    /\ job_completes' = [job_completes EXCEPT ![job[t]] = @ + 1]
    /\ current_job_index_in_run' = current_job_index_in_run + 1
    /\ Goto(t, "rq235")
    /\ UNCHANGED <<pending_queue, processed_jobs, active_job, is_running, stop_on_error,
                   cancel_current_job_requested, cancel_queue_requested,
                   nJobs, result, internal_process, procVars, localVars, ret,
                   started, runs, hist, watch, setupVars, progressVars>>

\* queues.py 237-250: job.status = "cancelled" with its message;
\* self._processed_jobs.append(job); on_job_start and on_job_complete for it;
\* index += 1.
run_queue_237(t) ==
    /\ pc[t] = "rq237"
    /\ status' = [status EXCEPT ![job[t]] = "cancelled"]
    /\ error_message' = [error_message EXCEPT ![job[t]] =
                           "Queue processing was cancelled before this job started."]
    /\ processed_jobs' = Append(processed_jobs, job[t])
    /\ job_completes' = [job_completes EXCEPT ![job[t]] = @ + 1]
    /\ \E r1, r2 \in CallbackOutcomes :
         hist' = Called(Called(hist, "on_job_start", current_job_index_in_run,
                               job[t], r1),
                        "on_job_complete", current_job_index_in_run, job[t], r2)
    /\ current_job_index_in_run' = current_job_index_in_run + 1
    /\ Goto(t, "rq235")
    /\ UNCHANGED <<pending_queue, active_job, is_running, stop_on_error,
                   cancel_current_job_requested, cancel_queue_requested,
                   nJobs, result, internal_process, procVars, localVars, ret,
                   started, runs, watch, setupVars, progressVars>>

\* queues.py 252: self._is_running = False.
run_queue_252(t) ==
    /\ pc[t] = "rq252"
    /\ is_running' = FALSE
    /\ \E r \in CallbackOutcomes : hist' = Called(hist, "on_queue_complete", 0, None, r)
    /\ Goto(t, "rq261")
    /\ UNCHANGED <<pending_queue, processed_jobs, active_job, current_job_index_in_run,
                   stop_on_error, cancel_current_job_requested, cancel_queue_requested,
                   jobVars, procVars, localVars, ret,
                   started, job_completes, runs, watch, setupVars, progressVars>>

\* queues.py 261: return list(self._processed_jobs).
run_queue_261(t) ==
    /\ pc[t] = "rq261"
    /\ Leave(t, ReturnedJobs("run_queue", processed_jobs))
    /\ UNCHANGED <<runnerVars, jobVars, procVars, histVars, setupVars, progressVars>>

\* ------------------------------------------------- cancel_current_job
\* How a cancel_current_job body ends: cancel_queue (queues.py 301) drops the
\* boolean of the call it delegates to; an exception passes through both.
\* A cancel_queue that returns during a run records the jobs then pending.
CancelReturn(t, o, v) ==
    /\ Leave(t, IF o = "cancel_queue"
                THEN Returned("cancel_queue", "None")
                ELSE Returned("cancel_current_job", v))
    /\ hist' = IF o = "cancel_queue" THEN SawCancelQueueReturn(hist)
               ELSE SawCancelTrue(hist, v)
CancelRaise(t, o, e) == Leave(t, Raised(o, e)) /\ hist' = hist

\* cancel_current_job_270 with line 275 placed before the check: the flag is
\* set even when there is nothing to cancel.
cancel_current_job_270_flag_first(t) ==
    /\ pc[t] \in {"idle", "cc270"}
    /\ cancel_current_job_requested' = TRUE
    /\ LET o == IF pc[t] = "idle" THEN "cancel_current_job" ELSE op[t] IN
       IF ~is_running \/ active_job = None
       THEN /\ Leave(t, IF o = "cancel_queue"
                        THEN Returned("cancel_queue", "None")
                        ELSE Returned("cancel_current_job", "False"))
            /\ hist' = IF o = "cancel_queue"
                       THEN SawCancelQueueReturn(hist)
                       ELSE SawCancelMade(SawCancelCall(hist))
       ELSE /\ Goto(t, "cc274")
            /\ op' = [op EXCEPT ![t] = o]
            /\ ret' = [ret EXCEPT ![t] = NoRet]
            /\ hist' = IF o = "cancel_queue"
                       THEN SawCancelCall(hist)
                       ELSE SawCancelMade(SawCancelCall(hist))
            /\ UNCHANGED <<job, soe, count, exc>>
    /\ UNCHANGED <<pending_queue, processed_jobs, active_job, current_job_index_in_run,
                   is_running, stop_on_error, cancel_queue_requested,
                   jobVars, procVars, started, job_completes, runs, watch, setupVars, progressVars>>

\* queues.py 270-272: if not self._is_running or not self._active_job: return False.
\* Entered by a direct call (from idle) or from cancel_queue (line 301).
cancel_current_job_270(t) ==
    /\ pc[t] \in {"idle", "cc270"}
    /\ LET o == IF pc[t] = "idle" THEN "cancel_current_job" ELSE op[t] IN
       IF ~is_running \/ active_job = None
       THEN /\ Leave(t, IF o = "cancel_queue"
                        THEN Returned("cancel_queue", "None")
                        ELSE Returned("cancel_current_job", "False"))
            /\ hist' = IF o = "cancel_queue"
                       THEN SawCancelQueueReturn(hist)
                       ELSE SawCancelMade(SawCancelCall(hist))
       ELSE /\ Goto(t, "cc274")
            /\ op' = [op EXCEPT ![t] = o]
            /\ ret' = [ret EXCEPT ![t] = NoRet]
            /\ hist' = SawCheckPassed(IF o = "cancel_queue"
                                      THEN SawCancelCall(hist)
                                      ELSE SawCancelMade(SawCancelCall(hist)))
            /\ UNCHANGED <<job, soe, count, exc>>
    /\ UNCHANGED <<runnerVars, jobVars, procVars, started, job_completes, runs, watch, setupVars, progressVars>>

\* queues.py 274: the print reads self._active_job.job_id.
cancel_current_job_274(t) ==
    /\ pc[t] = "cc274"
    /\ IF active_job = None
       THEN CancelRaise(t, op[t], "AttributeError")
       ELSE Goto(t, "cc275") /\ UNCHANGED <<localVars, ret, hist>>
    /\ UNCHANGED <<runnerVars, jobVars, procVars, started, job_completes, runs, watch, setupVars, progressVars>>

\* queues.py 275: self._cancel_current_job_requested = True.
cancel_current_job_275(t) ==
    /\ pc[t] = "cc275"
    /\ cancel_current_job_requested' = TRUE
    /\ Goto(t, "cc280a")
    /\ hist' = SawFlagSet(SawCancelCall(hist))
    /\ UNCHANGED <<pending_queue, processed_jobs, active_job, current_job_index_in_run,
                   is_running, stop_on_error, cancel_queue_requested,
                   jobVars, procVars, localVars, ret, started, job_completes, runs, watch, setupVars, progressVars>>

\* queues.py 280, first operand: read self._active_job ...
cancel_current_job_280a(t) ==
    /\ pc[t] = "cc280a"
    /\ IF active_job = None
       THEN CancelRaise(t, op[t], "AttributeError")
       ELSE /\ job' = [job EXCEPT ![t] = active_job]
            /\ Goto(t, "cc280b")
            /\ UNCHANGED <<op, soe, count, exc, ret, hist>>
    /\ UNCHANGED <<runnerVars, jobVars, procVars, started, job_completes, runs, watch, setupVars, progressVars>>

\* ... then its _internal_process; None is falsy and the call returns True (288).
cancel_current_job_280b(t) ==
    /\ pc[t] = "cc280b"
    /\ IF ~internal_process[job[t]]
       THEN CancelReturn(t, op[t], "True")
       ELSE Goto(t, "cc280c") /\ UNCHANGED <<localVars, ret, hist>>
    /\ UNCHANGED <<runnerVars, jobVars, procVars, started, job_completes, runs, watch, setupVars, progressVars>>

\* queues.py 280, second operand: read self._active_job again ...
cancel_current_job_280c(t) ==
    /\ pc[t] = "cc280c"
    /\ IF active_job = None
       THEN CancelRaise(t, op[t], "AttributeError")
       ELSE /\ job' = [job EXCEPT ![t] = active_job]
            /\ Goto(t, "cc280d")
            /\ UNCHANGED <<op, soe, count, exc, ret, hist>>
    /\ UNCHANGED <<runnerVars, jobVars, procVars, started, job_completes, runs, watch, setupVars, progressVars>>

\* ... then its _internal_process.poll(): None has no poll (AttributeError,
\* outside the try); an exited process makes the call return True (288).
cancel_current_job_280d(t) ==
    /\ pc[t] = "cc280d"
    /\ IF ~internal_process[job[t]]
       THEN CancelRaise(t, op[t], "AttributeError")
       ELSE IF Alive(job[t])
            THEN Goto(t, "cc282") /\ UNCHANGED <<localVars, ret, hist>>
            ELSE CancelReturn(t, op[t], "True")
    /\ UNCHANGED <<runnerVars, jobVars, procVars, started, job_completes, runs, watch, setupVars, progressVars>>

\* queues.py 282: the print inside the try reads self._active_job.job_id; the
\* AttributeError of a None is caught at 285.
cancel_current_job_282(t) ==
    /\ pc[t] = "cc282"
    /\ IF active_job = None
       THEN Goto(t, "cc286") /\ UNCHANGED <<localVars, ret, hist>>
       ELSE Goto(t, "cc283a") /\ UNCHANGED <<localVars, ret, hist>>
    /\ UNCHANGED <<runnerVars, jobVars, procVars, started, job_completes, runs, watch, setupVars, progressVars>>

\* queues.py 283: read self._active_job ...
cancel_current_job_283a(t) ==
    /\ pc[t] = "cc283a"
    /\ IF active_job = None
       THEN Goto(t, "cc286") /\ UNCHANGED <<localVars, ret, hist>>
       ELSE /\ job' = [job EXCEPT ![t] = active_job]
            /\ Goto(t, "cc283b")
            /\ UNCHANGED <<op, soe, count, exc, ret, hist>>
    /\ UNCHANGED <<runnerVars, jobVars, procVars, started, job_completes, runs, watch, setupVars, progressVars>>

\* ... then its _internal_process.terminate(); return True (284).  terminate()
\* on a process that has exited does nothing; None has no terminate, and the
\* AttributeError is caught at 285.
cancel_current_job_283b(t) ==
    /\ pc[t] = "cc283b"
    /\ IF ~internal_process[job[t]]
       THEN Goto(t, "cc286") /\ UNCHANGED <<proc, localVars, ret, hist>>
       ELSE proc' = Terminate(job[t]) /\ CancelReturn(t, op[t], "True")
    /\ UNCHANGED <<runnerVars, jobVars, exit_code, started, job_completes, runs, watch, setupVars, progressVars>>

\* queues.py 285-287: the handler's print reads self._active_job.job_id once
\* more, which raises out of the handler when there is still no active job;
\* otherwise return False.
cancel_current_job_286(t) ==
    /\ pc[t] = "cc286"
    /\ IF active_job = None
       THEN CancelRaise(t, op[t], "AttributeError")
       ELSE CancelReturn(t, op[t], "False")
    /\ UNCHANGED <<runnerVars, jobVars, procVars, started, job_completes, runs, watch, setupVars, progressVars>>

\* ------------------------------------------------------- cancel_queue
\* queues.py 294-296: if not self._is_running: return.
cancel_queue_294(t) ==
    /\ pc[t] = "idle"
    /\ IF ~is_running
       THEN /\ ret' = [ret EXCEPT ![t] = Returned("cancel_queue", "None")]
            /\ UNCHANGED <<pc, op>>
       ELSE /\ Goto(t, "cq299")
            /\ op' = [op EXCEPT ![t] = "cancel_queue"]
            /\ ret' = [ret EXCEPT ![t] = NoRet]
    /\ hist' = SawCancelQueueCall(SawCancelCall(hist), t)
    /\ UNCHANGED <<runnerVars, jobVars, procVars, job, soe, count, exc, started, job_completes, runs, watch, setupVars, progressVars>>

\* queues.py 299: self._cancel_queue_requested = True.
cancel_queue_299(t) ==
    /\ pc[t] = "cq299"
    /\ cancel_queue_requested' = TRUE
    /\ Goto(t, "cq300")
    /\ hist' = SawCancelCall(SawCancelQueueSet(hist))
    /\ UNCHANGED <<pending_queue, processed_jobs, active_job, current_job_index_in_run,
                   is_running, stop_on_error, cancel_current_job_requested,
                   jobVars, procVars, localVars, ret, started, job_completes, runs, watch, setupVars, progressVars>>

\* queues.py 300-301: if self._active_job: self.cancel_current_job().
cancel_queue_300(t) ==
    /\ pc[t] = "cq300"
    /\ IF active_job # None
       THEN Goto(t, "cc270") /\ UNCHANGED <<localVars, ret, hist>>
       ELSE CancelReturn(t, "cancel_queue", "None")
    /\ UNCHANGED <<runnerVars, jobVars, procVars, started, job_completes, runs, watch, setupVars, progressVars>>

\* ------------------------------------------------- clear_pending_jobs
\* clear_pending_jobs_305 without the test of _is_running.
clear_pending_jobs_305_no_guard(t) ==
    /\ pc[t] = "idle"
    /\ Goto(t, "cl307")
    /\ op' = [op EXCEPT ![t] = "clear_pending_jobs"]
    /\ ret' = [ret EXCEPT ![t] = NoRet]
    /\ hist' = SawClearCall(hist)
    /\ UNCHANGED <<runnerVars, jobVars, procVars, job, soe, count, exc, started,
                   job_completes, runs, watch, setupVars, progressVars>>

\* queues.py 305-306: if self._is_running: raise RuntimeError.
clear_pending_jobs_305(t) ==
    /\ pc[t] = "idle"
    /\ IF is_running
       THEN /\ ret' = [ret EXCEPT ![t] = Raised("clear_pending_jobs", "RuntimeError")]
            /\ UNCHANGED <<pc, op>>
       ELSE /\ Goto(t, "cl307")
            /\ op' = [op EXCEPT ![t] = "clear_pending_jobs"]
            /\ ret' = [ret EXCEPT ![t] = NoRet]
    /\ hist' = SawClearCall(hist)
    /\ UNCHANGED <<runnerVars, jobVars, procVars, job, soe, count, exc, started,
                   job_completes, runs, watch, setupVars, progressVars>>

\* queues.py 307: count = len(self._pending_queue).
clear_pending_jobs_307(t) ==
    /\ pc[t] = "cl307"
    /\ count' = [count EXCEPT ![t] = Len(pending_queue)]
    /\ Goto(t, "cl308")
    /\ UNCHANGED <<runnerVars, jobVars, procVars, op, job, soe, exc, ret, histVars, setupVars, progressVars>>

\* queues.py 308-310: self._pending_queue.clear(); return count.
clear_pending_jobs_308(t) ==
    /\ pc[t] = "cl308"
    /\ pending_queue' = <<>>
    /\ hist' = IF InRun /\ pending_queue # <<>> /\ watch = "calls"
               THEN [hist EXCEPT !.cleared = TRUE] ELSE hist
    /\ Leave(t, ReturnedCount("clear_pending_jobs", count[t]))
    /\ UNCHANGED <<processed_jobs, active_job, current_job_index_in_run, is_running,
                   stop_on_error, cancel_current_job_requested, cancel_queue_requested,
                   jobVars, procVars, started, job_completes, runs, watch, setupVars, progressVars>>

\* ------------------------------------------------------------ accessors
\* queues.py 316-321: return list(self._processed_jobs).
get_processed_jobs == processed_jobs

\* ------------------------------------------------------ specifications
\* The statements of run_queue after its first.
Drive(t) ==
    \/ run_queue_106(t) \/ run_queue_110(t) \/ run_queue_112(t)
    \/ run_queue_113(t) \/ run_queue_114(t) \/ run_queue_126(t)
    \/ run_queue_127(t) \/ run_queue_131(t) \/ run_queue_132(t)
    \/ run_queue_136(t) \/ run_queue_147(t) \/ run_queue_178(t)
    \/ job_process_callback(t) \/ job_progress_callback(t) \/ run_ffmpeg_251(t)
    \/ run_queue_184(t) \/ run_queue_188(t) \/ run_queue_211(t)
    \/ run_queue_220(t) \/ run_queue_231(t) \/ run_queue_235(t)
    \/ run_queue_236(t) \/ run_queue_237(t) \/ run_queue_252(t)
    \/ run_queue_261(t)

\* The statements of cancel_current_job and cancel_queue.
Control(t) ==
    \/ cancel_current_job_270(t) \/ cancel_current_job_274(t)
    \/ cancel_current_job_275(t) \/ cancel_current_job_280a(t)
    \/ cancel_current_job_280b(t) \/ cancel_current_job_280c(t)
    \/ cancel_current_job_280d(t) \/ cancel_current_job_282(t)
    \/ cancel_current_job_283a(t) \/ cancel_current_job_283b(t)
    \/ cancel_current_job_286(t)
    \/ cancel_queue_294(t) \/ cancel_queue_299(t) \/ cancel_queue_300(t)

\* The statements of clear_pending_jobs.
Clear(t) ==
    \/ clear_pending_jobs_305(t) \/ clear_pending_jobs_307(t)
    \/ clear_pending_jobs_308(t)

Next ==
    \/ \E s \in BOOLEAN : run_queue_104("drv", s)
    \/ Drive("drv")
    \/ \E s \in BOOLEAN : is_running /\ run_queue_104("ctl", s)
    \/ add_job("ctl")
    \/ Control("ctl")
    \/ \E j \in JobIds : process_exit(j)

\* The documented usage, recording no more history than the run's first queue.
InitPlain == Init /\ watch = "none"
Spec == InitPlain /\ [][Next]_vars
\* The same, recording whether a cancel call was made during the run.
InitCalls == Init /\ watch = "calls"
SpecCalls == InitCalls /\ [][Next]_vars
\* The same, recording the jobs pending when cancel_current_job was called
\* during the run, and whether cancel_queue set its flag.
InitCancel == Init /\ watch = "cancel"
SpecCancel == InitCancel /\ [][Next]_vars
\* The same, recording the jobs pending when cancel_queue returned.
InitCancelQueue == Init /\ watch = "cancel_queue"
SpecCancelQueue == InitCancelQueue /\ [][Next]_vars

\* The same, recording the callbacks invoked, each of which may raise.
InitCallbacks == Init /\ watch = "callbacks"
SpecCallbacks == InitCallbacks /\ [][Next]_vars
\* The same, with jobs of any duration hint and a runner with or without
\* on_job_progress.
InitConfig == Init /\ watch = "config"
SpecConfig == InitConfig /\ [][Next]_vars

\* The documented usage and clear_pending_jobs, called at any time.
NextClear ==
    \/ Next
    \/ Clear("ctl")
InitClear == Init /\ watch = "clear"
SpecClear == InitClear /\ [][NextClear]_vars

\* The documented usage under the scheduling the code has: the driving thread
\* goes on to its next statement, and a cancel call that was begun goes on to
\* its end.  A process need neither exit nor print a progress line that is
\* delivered (process.py 221-232), so neither has a fairness condition.
DriveOn == Drive("drv") /\ pc'["drv"] # pc["drv"]
ControlOn == Control("ctl") /\ pc["ctl"] # "idle"
InitLive == Init /\ watch = "live"
SpecLive == InitLive /\ [][Next]_vars /\ WF_vars(DriveOn) /\ WF_vars(ControlOn)

\* The documented usage over two runs, recording what the cancel calls of the
\* first run left behind when the second begins.
InitStale == Init /\ watch = "stale"
SpecStale == InitStale /\ [][Next]_vars

\* The documented usage, recording the job that was active when a
\* cancel_current_job call passed its check and when it set its flag.
InitTarget == Init /\ watch = "target"
SpecTarget == InitTarget /\ [][Next]_vars

\* The documented usage, with add_job given any builder.
InitAdd == Init /\ watch = "add"
SpecAdd == InitAdd /\ [][Next]_vars

NextRace ==
    \/ \E t \in Threads : \E s \in BOOLEAN : run_queue_104(t, s)
    \/ \E t \in Threads : Drive(t)
    \/ nJobs < MaxRaceJobs /\ add_job("ctl")
    \/ \E j \in JobIds : process_exit(j)

InitRace == Init /\ watch = "race"
SpecRace == InitRace /\ [][NextRace]_vars

\* ------------------------------------------- run_ffmpeg_with_progress
\* process.py 174-295 for one process, with a progress callback and a
\* positive duration.  The process writes its lines to the pipe and exits;
\* read_stderr appends them to stderr_lines; the main thread polls.
process_writes ==
    /\ ppc # "off"
    /\ process_returncode = Polling
    /\ written < Len(output)
    /\ written' = written + 1
    /\ UNCHANGED <<queueVars, stdoutVars, progress_duration_sec, output, process_returncode,
                   stderr_thread_alive, nread, stderr_lines, processed_lines,
                   last_progress_pct, delivered, examined, exit_code_waited,
                   run_result, ppc>>

\* The process writes a chunk to its standard output, which Popen made a pipe
\* (process.py 176).  Nothing in run_ffmpeg_with_progress reads process.stdout,
\* so the pipe only fills; a write to a full pipe blocks.
process_writes_stdout ==
    /\ ppc # "off"
    /\ process_returncode = Polling
    /\ stdout_todo > 0
    /\ stdout_pipe < PipeCapacity
    /\ stdout_todo' = stdout_todo - 1
    /\ stdout_pipe' = stdout_pipe + 1
    /\ UNCHANGED <<queueVars, progress_duration_sec, output, written,
                   process_returncode, stderr_thread_alive, nread, stderr_lines,
                   processed_lines, last_progress_pct, delivered, examined,
                   exit_code_waited, run_result, ppc>>

\* The process exits once it has written all it had to write.
process_exits ==
    /\ ppc # "off"
    /\ process_returncode = Polling
    /\ written = Len(output)
    /\ stdout_todo = 0
    /\ \E c \in ExitCodes : process_returncode' = c
    /\ UNCHANGED <<queueVars, stdoutVars, progress_duration_sec, output, written,
                   stderr_thread_alive, nread, stderr_lines, processed_lines,
                   last_progress_pct, delivered, examined, exit_code_waited,
                   run_result, ppc>>

\* process.py 187-211 and 293-295: process_callback(process), then the reader
\* thread is started.  An exception of the callback is wrapped in
\* FfmpegWrapperError by the handler at 293 and ends the run there.
run_ffmpeg_187 ==
    /\ ppc = "pg187"
    /\ \/ /\ stderr_thread_alive' = TRUE
          /\ ppc' = "pg214"
          /\ UNCHANGED run_result
       \/ /\ run_result' = "FfmpegWrapperError"
          /\ ppc' = "done"
          /\ UNCHANGED stderr_thread_alive
    /\ UNCHANGED <<queueVars, stdoutVars, progress_duration_sec, output, written,
                   process_returncode, nread, stderr_lines, processed_lines,
                   last_progress_pct, delivered, examined, exit_code_waited>>

\* process.py 199-200
read_stderr_200 ==
    /\ stderr_thread_alive
    /\ nread < written
    /\ nread' = nread + 1
    /\ stderr_lines' = Append(stderr_lines, Read(nread + 1))
    /\ UNCHANGED <<queueVars, stdoutVars, progress_duration_sec, output, written,
                   process_returncode, stderr_thread_alive, processed_lines,
                   last_progress_pct, delivered, examined, exit_code_waited,
                   run_result, ppc>>

\* process.py 199, 206: end of the pipe, the thread ends.
read_stderr_206 ==
    /\ stderr_thread_alive
    /\ nread = written
    /\ process_returncode # Polling
    /\ stderr_thread_alive' = FALSE
    /\ UNCHANGED <<queueVars, stdoutVars, progress_duration_sec, output, written,
                   process_returncode, nread, stderr_lines, processed_lines,
                   last_progress_pct, delivered, examined, exit_code_waited,
                   run_result, ppc>>

\* process.py 214, 216
run_ffmpeg_214 ==
    /\ ppc = "pg214"
    /\ ppc' = IF stderr_thread_alive \/ process_returncode = Polling
              THEN (IF stderr_lines # <<>> THEN "pg218" ELSE "pg245")
              ELSE "pg248"
    /\ UNCHANGED <<queueVars, stdoutVars, progress_duration_sec, output, written,
                   process_returncode, stderr_thread_alive, nread, stderr_lines,
                   processed_lines, last_progress_pct, delivered, examined,
                   exit_code_waited, run_result>>

\* process.py 218
run_ffmpeg_218 ==
    /\ ppc = "pg218"
    /\ processed_lines' = stderr_lines
    /\ ppc' = "pg219"
    /\ UNCHANGED <<queueVars, stdoutVars, progress_duration_sec, output, written,
                   process_returncode, stderr_thread_alive, nread, stderr_lines,
                   last_progress_pct, delivered, examined, exit_code_waited,
                   run_result>>

\* process.py 219-241: the list is cleared, then the copy is parsed.
run_ffmpeg_219 ==
    /\ ppc = "pg219"
    /\ stderr_lines' = <<>>
    /\ examined' = examined \o Numbers(processed_lines)
    /\ LET st == ParseLines(processed_lines, progress_duration_sec,
                            [last |-> last_progress_pct, sent |-> delivered], FALSE)
       IN  /\ last_progress_pct' = st.last
           /\ delivered' = st.sent
    /\ ppc' = "pg245"
    /\ UNCHANGED <<queueVars, stdoutVars, progress_duration_sec, output, written,
                   process_returncode, stderr_thread_alive, nread, processed_lines,
                   exit_code_waited, run_result>>

\* process.py 245
run_ffmpeg_245 ==
    /\ ppc = "pg245"
    /\ ppc' = "pg214"
    /\ UNCHANGED <<queueVars, stdoutVars, progress_duration_sec, output, written,
                   process_returncode, stderr_thread_alive, nread, stderr_lines,
                   processed_lines, last_progress_pct, delivered, examined,
                   exit_code_waited, run_result>>

\* process.py 248-273: join, exit_code = process.wait(), then the lines still
\* in stderr_lines.
run_ffmpeg_248 ==
    /\ ppc = "pg248"
    /\ ~stderr_thread_alive
    /\ process_returncode # Polling
    /\ exit_code_waited' = process_returncode
    /\ examined' = examined \o Numbers(stderr_lines)
    /\ LET st == ParseLines(stderr_lines, progress_duration_sec,
                            [last |-> last_progress_pct, sent |-> delivered], TRUE)
       IN  /\ last_progress_pct' = st.last
           /\ delivered' = st.sent
    /\ ppc' = "pg278"
    /\ UNCHANGED <<queueVars, stdoutVars, progress_duration_sec, output, written,
                   process_returncode, stderr_thread_alive, nread, stderr_lines,
                   processed_lines, run_result>>

\* process.py 276: full_stderr = "".join(stderr_lines).
full_stderr == Numbers(stderr_lines)

\* process.py 278-287
run_ffmpeg_278 ==
    /\ ppc = "pg278"
    /\ run_result' = IF exit_code_waited # 0 THEN "FfmpegProcessError" ELSE "True"
    /\ ppc' = "done"
    /\ UNCHANGED <<queueVars, stdoutVars, progress_duration_sec, output, written,
                   process_returncode, stderr_thread_alive, nread, stderr_lines,
                   processed_lines, last_progress_pct, delivered, examined,
                   exit_code_waited>>

NextProgress ==
    \/ process_writes
    \/ process_exits
    \/ run_ffmpeg_187
    \/ read_stderr_200
    \/ read_stderr_206
    \/ run_ffmpeg_214
    \/ run_ffmpeg_218
    \/ run_ffmpeg_219
    \/ run_ffmpeg_245
    \/ run_ffmpeg_248
    \/ run_ffmpeg_278

InitProgress == Init /\ watch = "progress"
SpecProgress == InitProgress /\ [][NextProgress]_vars

\* The same for a process that also writes to its standard output, under the
\* scheduling the code has: the main thread and the reader thread go on to
\* their next statement, and the process writes and exits whenever it can.
NextStdout ==
    \/ NextProgress
    \/ process_writes_stdout
MainOn ==
    \/ run_ffmpeg_187 \/ run_ffmpeg_214 \/ run_ffmpeg_218 \/ run_ffmpeg_219
    \/ run_ffmpeg_245 \/ run_ffmpeg_248 \/ run_ffmpeg_278
ReaderOn == read_stderr_200 \/ read_stderr_206
ProcessOn == process_writes \/ process_writes_stdout \/ process_exits
InitStdout == Init /\ watch = "stdout"
SpecStdout ==
    /\ InitStdout
    /\ [][NextStdout]_vars
    /\ WF_vars(MainOn) /\ WF_vars(ReaderOn) /\ WF_vars(ProcessOn)

\* ------------------------------------------------------------- claims
\* The run_queue call of thread "drv" has returned a list: R is that list.
RunReturned ==
    /\ pc["drv"] = "idle"
    /\ ret["drv"].op = "run_queue"
    /\ ret["drv"].kind = "return"
R == ret["drv"].jobs
Terminal == {"completed", "failed", "cancelled"}

\* C1: with stop_on_error=False, no cancel call and no add_job during the run,
\* run_queue returns exactly the jobs that were pending when it was called, in
\* the order they were added, each completed or failed.
C1_ReturnsAllInOrder ==
    (RunReturned /\ ~soe["drv"] /\ ~hist.cancelCalled /\ ~hist.addCalled)
    => /\ R = hist.snap
       /\ \A i \in 1 .. Len(R) : status[R[i]] \in {"completed", "failed"}

\* Three jobs were run without interference; one failed, a later one completed.
C1_Witness ==
    /\ RunReturned /\ ~soe["drv"] /\ ~hist.cancelCalled /\ ~hist.addCalled
    /\ Len(R) = 3
    /\ status[R[2]] = "failed"
    /\ status[R[3]] = "completed"

\* C2: with stop_on_error=True, if the k-th returned job failed, every job
\* before it is completed, and every job after it is cancelled and was never
\* launched.
C2_StopOnError ==
    (RunReturned /\ soe["drv"])
    => \A k \in 1 .. Len(R) :
         status[R[k]] = "failed"
         => /\ \A i \in 1 .. (k - 1) : status[R[i]] = "completed"
            /\ \A i \in (k + 1) .. Len(R) :
                 /\ status[R[i]] = "cancelled"
                 /\ ~started[R[i]]
                 /\ proc[R[i]] = "none"

\* A completed job, then the failed one, then a skipped one.
C2_Witness ==
    /\ RunReturned /\ soe["drv"]
    /\ Len(R) = 3
    /\ status[R[1]] = "completed"
    /\ status[R[2]] = "failed"
    /\ status[R[3]] = "cancelled"

\* C3: whatever cancel_current_job and cancel_queue calls interleave with the
\* run, every job pending when run_queue was called is in the returned list
\* exactly once, in enqueue order (they are its first elements), with a
\* terminal status.
C3_NoJobDropped ==
    RunReturned
    => /\ Len(hist.snap) <= Len(R)
       /\ SubSeq(R, 1, Len(hist.snap)) = hist.snap
       /\ \A i, k \in 1 .. Len(R) : R[i] = R[k] => i = k
       /\ \A i \in 1 .. Len(R) : status[R[i]] \in Terminal

\* A run of three jobs that both kinds of cancellation reached: one job ran,
\* the rest were skipped.
C3_Witness ==
    /\ RunReturned
    /\ Len(hist.snap) = 3
    /\ cancel_current_job_requested /\ cancel_queue_requested
    /\ ~soe["drv"]
    /\ started[R[1]]
    /\ status[R[3]] = "cancelled"

\* C4: a job added while run_queue is executing is left alone by that call: it is
\* not in the returned list, was not launched, keeps status pending and is
\* still in the pending queue when the call has returned.
C4_LateJobLeftPending ==
    RunReturned
    => \A j \in JobIds :
         (hist.n0 < j /\ j <= nJobs)
         => /\ j \in Range(pending_queue)
            /\ j \notin Range(R)
            /\ ~started[j]
            /\ status[j] = "pending"

\* A job added while the first was running was launched and returned by the
\* same call, with no cancellation requested.
LateJobLaunched ==
    /\ RunReturned
    /\ hist.n0 = 1
    /\ ~cancel_queue_requested /\ ~cancel_current_job_requested
    /\ Len(R) = 2
    /\ started[2] /\ status[2] = "completed"
    /\ pending_queue = <<>>

\* C5: run_queue called while is_running is true raises RuntimeError, never gets
\* past the running check, and leaves the runner, the jobs and the processes
\* as they were.
C5_ReentryRejected ==
    [][\A t \in Threads :
         /\ (pc[t] = "idle" /\ pc'[t] = "rq106") => ~is_running
         /\ (ret'[t] # ret[t] /\ ret'[t] = Raised("run_queue", "RuntimeError"))
            => /\ is_running
               /\ UNCHANGED <<runnerVars, jobVars, procVars>>]_vars

\* A second run_queue call was rejected while a job of the first was running.
C5_Witness ==
    /\ ret["ctl"] = Raised("run_queue", "RuntimeError")
    /\ is_running
    /\ active_job # None
    /\ status[active_job] = "running"
    /\ pending_queue # <<>>

\* Thread t is inside the drive: it has set the running flag and not yet
\* cleared it.
InDrive(t) == op[t] = "run_queue" /\ pc[t] \notin {"idle", "rq106", "rq110", "rq261"}

\* C6: of two threads calling run_queue on the same runner, at most one is
\* inside the drive loop at any time.
C6_OneDrive == ~(InDrive("drv") /\ InDrive("ctl"))

\* C7: at most one job is preparing or running; a job has a process handle
\* only while it is the active job; a job whose on_job_complete has fired has
\* none.
C7_OneActiveJob ==
    /\ Cardinality({j \in JobIds : status[j] \in {"preparing", "running"}}) <= 1
    /\ \A j \in JobIds : internal_process[j] => active_job = j
    /\ \A j \in JobIds : job_completes[j] > 0 => ~internal_process[j]

\* A state of a single drive: the second job holds its live process while the
\* first is done.
OneDriveSecondJobRunning ==
    /\ \E j \in JobIds :
         /\ internal_process[j]
         /\ status[j] = "running"
         /\ Alive(j)
    /\ \E k \in JobIds : job_completes[k] > 0 /\ proc[k] = "exited"

\* C8: every job still pending when a cancel_queue call made during the run
\* returns is never launched, and is in the returned list with status
\* cancelled.
C8_CancelQueueSkipsPending ==
    \A j \in hist.pendAtCancelQueue :
        /\ ~started[j]
        /\ proc[j] = "none"
        /\ RunReturned => (j \in Range(R) /\ status[j] = "cancelled")

\* C9: with stop_on_error=False and no cancel_queue, no job that was pending
\* when a cancel_current_job call was made during the run is skipped as
\* cancelled, and when run_queue returns each of them has been launched, unless
\* it is still in the pending queue for a later run to launch.
C9_CancelCurrentKeepsQueue ==
    (~soe["drv"] /\ ~hist.cancelQueueSet)
    => \A j \in hist.pendAtCancel :
         /\ status[j] # "cancelled"
         /\ RunReturned
            => \/ j \in Range(pending_queue) /\ status[j] = "pending"
               \/ j \in Range(R) /\ started[j]

\* The same, for the jobs that were already enqueued when run_queue was called.
CancelCurrentKeepsInitialJobs ==
    (RunReturned /\ ~soe["drv"] /\ ~hist.cancelQueueSet)
    => \A j \in hist.pendAtCancel :
         j <= hist.n0
         => /\ j \in Range(R)
            /\ started[j]
            /\ status[j] # "cancelled"

\* The first job was terminated on request and failed; the two that were
\* pending then ran after it.
CancelCurrentThenRest ==
    /\ RunReturned /\ ~soe["drv"] /\ ~hist.cancelQueueSet
    /\ hist.n0 = 3
    /\ Cardinality(hist.pendAtCancel) = 2
    /\ Len(R) = 3
    /\ result[R[1]] = "FfmpegProcessError"
    /\ \A j \in hist.pendAtCancel : proc[j] = "exited"

\* C10: cancel_current_job called when the runner is not running or has no
\* active job returns False and changes neither the flags, the queues nor any
\* job.
C10_CancelWithoutJob ==
    [][\A t \in Threads :
         (/\ pc[t] = "idle"
          /\ ~is_running \/ active_job = None
          /\ \/ op'[t] = "cancel_current_job"
             \/ ret'[t] # ret[t] /\ ret'[t].op = "cancel_current_job")
         => /\ ret'[t] = Returned("cancel_current_job", "False")
            /\ pc'[t] = "idle"
            /\ UNCHANGED <<runnerVars, jobVars, procVars>>]_vars

\* The call returned False during a run, between two jobs.
C10_Witness ==
    /\ ret["ctl"] = Returned("cancel_current_job", "False")
    /\ is_running
    /\ active_job = None
    /\ pending_queue # <<>>
    /\ processed_jobs # <<>>


\* C11: run_queue finding the pending queue empty returns an empty list in
\* that step, has invoked no callback since it was called, and changes no
\* field of the runner or of a job; is_running is false afterwards.
C11_EmptyRunIsSilent ==
    [][(/\ pc["drv"] = "rq106"
        /\ pending_queue = <<>>
        /\ pc'["drv"] # "rq106")
       => /\ ret'["drv"] = ReturnedJobs("run_queue", <<>>)
          /\ pc'["drv"] = "idle"
          /\ hist'.log = <<>>
          /\ ~is_running'
          /\ UNCHANGED <<runnerVars, jobVars, procVars>>]_vars

\* run_queue returned [] for an empty queue; a job was added afterwards.
C11_Witness ==
    /\ RunReturned
    /\ R = <<>>
    /\ runs["drv"] = 1
    /\ hist.log = <<>>
    /\ ~is_running
    /\ pending_queue # <<>>

\* C12: once a run_queue call has returned, get_processed_jobs() is the list
\* that call returned, also when it returned [] for an empty queue.
C12_ProcessedIsLastRun == RunReturned => get_processed_jobs = R


\* What the launch of job j amounts to: never launched, exit code 0, or a
\* launch error or non-zero exit code.
Outcome(j) ==
    IF ~started[j] THEN "cancelled"
    ELSE IF proc[j] = "exited" /\ exit_code[j] = 0 THEN "completed"
    ELSE "failed"

\* C13: whichever callbacks raise, run_queue does not end by raising, and the
\* list it returns holds every job that was pending at the call, in order, each
\* with the status its own launch decides, as when no callback raises.
C13_CallbackErrorsContained ==
    /\ ret["drv"].kind # "raise"
    /\ RunReturned
       => /\ Len(hist.snap) <= Len(R)
          /\ SubSeq(R, 1, Len(hist.snap)) = hist.snap
          /\ \A i \in 1 .. Len(R) : status[R[i]] = Outcome(R[i])

\* A callback raised during a run that completed one job and failed the next,
\* with progress delivered.
C13_Witness ==
    /\ RunReturned
    /\ hist.cbRaised
    /\ Len(R) = 2
    /\ status[R[1]] = "completed"
    /\ status[R[2]] = "failed"
    /\ Delivered(hist, R[2]) > 0

Log == hist.log
JobCallbacks == {"on_job_start", "on_job_process_created", "on_job_progress",
                 "on_job_complete"}

\* C14: in the callbacks of one run_queue call, on_queue_start comes before
\* every other; a job's on_job_start comes before its process-created,
\* progress and complete callbacks; no progress of a job comes after its
\* on_job_complete; on_queue_complete comes last, after the on_job_complete
\* of every job in the processed list.
C14_CallbackOrder ==
    /\ \A i \in 1 .. Len(Log) :
         Log[i].cb # "on_queue_start"
         => \E k \in 1 .. (i - 1) : Log[k].cb = "on_queue_start"
    /\ \A i \in 1 .. Len(Log) :
         Log[i].cb \in JobCallbacks \ {"on_job_start"}
         => \E k \in 1 .. (i - 1) :
              Log[k].cb = "on_job_start" /\ Log[k].job = Log[i].job
    /\ \A i \in 1 .. Len(Log) :
         Log[i].cb = "on_job_complete"
         => \A k \in (i + 1) .. Len(Log) :
              ~(Log[k].cb = "on_job_progress" /\ Log[k].job = Log[i].job)
    /\ \A i \in 1 .. Len(Log) :
         Log[i].cb = "on_queue_complete"
         => /\ i = Len(Log)
            /\ \A j \in Range(processed_jobs) :
                 \E k \in 1 .. (i - 1) :
                   Log[k].cb = "on_job_complete" /\ Log[k].job = j

\* A run with every kind of callback: one job launched with progress, one
\* skipped, then on_queue_complete.
C14_Witness ==
    /\ RunReturned
    /\ Len(R) = 2
    /\ started[R[1]] /\ ~started[R[2]]
    /\ Delivered(hist, R[1]) = MaxProgress
    /\ \E i \in 1 .. Len(Log) : Log[i].cb = "on_job_process_created"
    /\ Log[Len(Log)].cb = "on_queue_complete"

\* The places in the log where callback c was invoked for job j.
Calls(c, j) == {i \in 1 .. Len(Log) : Log[i].cb = c /\ Log[i].job = j}

\* C15: when run_queue returns, every job of the returned list, launched or
\* skipped, has had exactly one on_job_start and exactly one on_job_complete,
\* both with the index of the job's place in the list (from 0).
C15_OneStartOneComplete ==
    RunReturned
    => \A p \in 1 .. Len(R) :
         \A c \in {"on_job_start", "on_job_complete"} :
           /\ Cardinality(Calls(c, R[p])) = 1
           /\ \A i \in Calls(c, R[p]) : Log[i].idx = p - 1

\* A launched job at index 0 and a skipped one at index 1.
C15_Witness ==
    /\ RunReturned
    /\ Len(R) = 2
    /\ started[R[1]] /\ status[R[1]] = "failed"
    /\ ~started[R[2]] /\ status[R[2]] = "cancelled"
    /\ \E i \in Calls("on_job_complete", R[2]) : Log[i].idx = 1


\* run_ffmpeg_with_progress has ended, by returning or by raising.
RunEnded == ppc = "done"

\* C16: whatever times the progress lines carry, in whatever order, the
\* percentages passed to the progress callback never decrease.
C16_ProgressNonDecreasing ==
    \A i \in 1 .. (Len(delivered) - 1) : delivered[i] <= delivered[i + 1]

\* Three progress lines with the time going backwards in between, two
\* percentages delivered.
C16_Witness ==
    /\ RunEnded
    /\ Len(output) = 3
    /\ \A i \in 1 .. 3 : output[i].progress
    /\ output[2].time < output[1].time
    /\ output[2].time < output[3].time
    /\ Len(delivered) = 2
    /\ delivered[1] < delivered[2]

\* C17: when the run returns True, which is when the job is completed, and
\* some percentage was delivered, the last one delivered is 100.0.
C17_LastProgressIsFull ==
    (RunEnded /\ run_result = "True" /\ delivered # <<>>)
    => delivered[Len(delivered)] = 100000


\* The exceptions a job's run can end with.
JobErrors ==
    {"FfmpegProcessError", "CommandBuilderError", "FfmpegExecutableNotFoundError",
     "FfmpegWrapperError", "TypeError"}

\* The run of job j has ended in an error: it did not start a process, or the
\* process exited with a code other than 0.
RunFailed(j) ==
    /\ started[j]
    /\ status[j] \in Terminal
    /\ ~(proc[j] = "exited" /\ exit_code[j] = 0)

\* C18: run_queue raises nothing but the RuntimeError of a call made while the
\* runner is running; the exception that ends a job's run (ffmpeg not found, a
\* non-zero exit code, a builder error, any other) is recorded on the job:
\* status failed, result the exception, error_message set.
C18_JobFailureRecorded ==
    /\ [](\A t \in Threads :
            (ret[t].op = "run_queue" /\ ret[t].kind = "raise")
            => ret[t].value = "RuntimeError")
    /\ [](\A j \in JobIds :
            RunFailed(j)
            => /\ status[j] = "failed"
               /\ result[j] \in JobErrors
               /\ error_message[j] # "None")
    /\ [][(pc["drv"] = "rq188" /\ pc'["drv"] # "rq188")
          => /\ pc'["drv"] = "rq211"
             /\ status'[job["drv"]] = "failed"
             /\ result'[job["drv"]] = exc["drv"]
             /\ error_message'[job["drv"]] # "None"]_vars

\* run_queue has returned two failed jobs, one that raised TypeError and one
\* whose process exited with a code other than 0.
C18_Witness ==
    /\ RunReturned
    /\ Len(R) = 2
    /\ \E i, k \in 1 .. 2 :
         /\ status[R[i]] = "failed" /\ result[R[i]] = "TypeError"
         /\ status[R[k]] = "failed" /\ result[R[k]] = "FfmpegProcessError"


\* The process of job j was started.
Launched(j) == proc[j] # "none"

\* C19: a job whose process was started ends completed exactly when the exit
\* code is 0 and failed when it is not, also when a cancellation flag was set
\* when the process exited.
C19_ExitCodeDecides ==
    \A j \in JobIds :
      (Launched(j) /\ status[j] \in Terminal)
      => /\ proc[j] = "exited"
         /\ status[j] = "completed" <=> exit_code[j] = 0
         /\ exit_code[j] # 0 => status[j] = "failed"

\* The job-complete callback of a job has been made with the job completed,
\* exit code 0, while the cancellation of the current job is requested; the
\* job before it failed on a non-zero exit code.
C19_Witness ==
    /\ pc["drv"] = "rq231"
    /\ cancel_current_job_requested
    /\ Launched(job["drv"])
    /\ exit_code[job["drv"]] = 0
    /\ status[job["drv"]] = "completed"
    /\ \E j \in JobIds :
         Launched(j) /\ exit_code[j] # 0 /\ status[j] = "failed"

\* In run_ffmpeg_with_progress the lines read decide nothing: the run returns
\* True exactly when the exit code is 0.
ExitCodeDecidesRun ==
    (RunEnded /\ exit_code_waited # Polling)
    => (run_result = "True" <=> process_returncode = 0)


\* Job j was given no duration, or one that is not positive, and its run is
\* over.
RanWithoutDuration(j) ==
    /\ ~DurationUsable(duration_sec[j])
    /\ started[j]
    /\ status[j] \in Terminal

\* C20: a job without a positive duration fails on the TypeError of the
\* duration check only on a runner that has on_job_progress; on a runner
\* without it the job does not end with that error, and once launched its
\* status follows the exit code.
C20_DurationNeededOnlyForProgress ==
    \A j \in JobIds :
      RanWithoutDuration(j)
      => IF on_job_progress
         THEN ~Launched(j) /\ status[j] = "failed"
         ELSE /\ result[j] # "TypeError"
              /\ Launched(j) => (status[j] = "completed" <=> exit_code[j] = 0)

\* What the code does: whether or not on_job_progress is set, a job without a
\* positive duration is never launched and ends failed.
DurationAlwaysNeeded ==
    \A j \in JobIds :
      RanWithoutDuration(j) => ~Launched(j) /\ status[j] = "failed"


\* No run_queue call was in progress when the clear_pending_jobs call of
\* thread "ctl" began, and none has begun since.
IdleSinceClearCall ==
    /\ hist.clearIdle
    /\ pc["drv"] = "idle"
    /\ runs["drv"] = hist.clearRuns

ClearReturnsRemoved ==
    [][(pc["ctl"] = "cl308" /\ pc'["ctl"] # "cl308")
       => count["ctl"] = Len(pending_queue)]_vars


\* Thread "ctl" takes a step of a cancel_queue call that it made right after
\* another cancel_queue call of the same run had returned.
SecondCancelQueueStep ==
    /\ hist'.cqAgain
    /\ op["ctl"] = "cancel_queue" \/ op'["ctl"] = "cancel_queue"
    /\ pc'["ctl"] # pc["ctl"] \/ ret'["ctl"] # ret["ctl"]

\* C22: a cancel_queue call made right after another one, during the same
\* run, changes nothing (no flag, no queue, no job, no process) and does not
\* raise.
C22_CancelQueueIdempotent ==
    [][SecondCancelQueueStep
       => /\ UNCHANGED <<runnerVars, jobVars, procVars>>
          /\ ret'["ctl"].kind # "raise"]_vars


\* run_queue(stop_on_error=True) has returned and the k-th returned job failed.
StoppedAt(k) ==
    /\ RunReturned
    /\ soe["drv"]
    /\ k \in 1 .. Len(R)
    /\ status[R[k]] = "failed"

C24_FlagSuffices ==
    \A j \in JobIds :
      (j \in hist.cancelTrue)
      ~> (proc[j] \in {"terminated", "exited"} \/ status[j] \in Terminal)

\* C25: a process on which terminate was requested and which does not exit is
\* eventually killed, the job's on_job_complete is made and run_queue returns.
C25_HungProcessKilled ==
    \A j \in JobIds :
      (proc[j] = "terminated")
      ~> (proc[j] = "exited" /\ job_completes[j] > 0 /\ RunReturned)


\* The run went through process.wait() (process.py 251).
Waited == exit_code_waited # Polling

\* The numbers 1 .. n in order.
UpTo(n) == [i \in 1 .. n |-> i]

\* C26: no line is given to the progress extractor twice, and when the run
\* ends after the wait, every line read_stderr took from the pipe has been
\* given to it once.
C26_EveryLineExaminedOnce ==
    /\ \A i, k \in 1 .. Len(examined) : examined[i] = examined[k] => i = k
    /\ (RunEnded /\ Waited) => examined = UpTo(nread)

\* C27: when the run ends with FfmpegProcessError, the stderr the error
\* carries holds every line the process wrote.
C27_ErrorCarriesAllStderr ==
    (RunEnded /\ run_result = "FfmpegProcessError")
    => full_stderr = UpTo(Len(output))

\* The progress lines among the lines the for loops were given, in order.
ParsedProgress == SelectSeq(examined, LAMBDA n : output[n].progress)

\* C28: when the run ends after the wait, the percentage of the last progress
\* line parsed is not above the last percentage delivered: had it been above
\* when it was parsed, it would have been delivered.
C28_FinalProgressDelivered ==
    (RunEnded /\ Waited /\ ParsedProgress # <<>>)
    => Percentage(output[ParsedProgress[Len(ParsedProgress)]].time,
                  progress_duration_sec) <= last_progress_pct

\* C29: however run_ffmpeg_with_progress ends, the process it launched has
\* been waited on.
C29_ProcessAlwaysWaited ==
    RunEnded => Waited


\* The status changes the claim allows.
Forward ==
    {<<"pending", "preparing">>, <<"preparing", "running">>,
     <<"running", "completed">>, <<"running", "failed">>,
     <<"running", "cancelled">>, <<"pending", "cancelled">>}

\* C30: every change of a job's status is one of pending to preparing,
\* preparing to running, running to completed, failed or cancelled, and
\* pending to cancelled; a completed, failed or cancelled job keeps its status.
C30_StatusMovesForward ==
    [][\A j \in JobIds :
         status'[j] # status[j] => <<status[j], status'[j]>> \in Forward]_vars

\* A second run_queue call has returned and the jobs of the first run are
\* completed, failed and cancelled.
C30_Witness ==
    /\ RunReturned
    /\ runs["drv"] = 2
    /\ \A st \in Terminal : \E j \in 1 .. nJobs : status[j] = st

\* C31: for every job of a list run_queue returned, error_message is not None
\* if and only if the job is failed or cancelled, and result is True if and
\* only if the job is completed.
C31_MessageAndResultFollowStatus ==
    RunReturned
    => \A i \in 1 .. Len(R) :
         /\ error_message[R[i]] # "None" <=> status[R[i]] \in {"failed", "cancelled"}
         /\ result[R[i]] = "True" <=> status[R[i]] = "completed"

\* A returned list with a completed job, a failed one and a cancelled one,
\* which have no message and True, a message and the exception, a message and
\* no result.
C31_Witness ==
    /\ RunReturned
    /\ \E a, b, c \in Range(R) :
         /\ status[a] = "completed" /\ error_message[a] = "None" /\ result[a] = "True"
         /\ status[b] = "failed" /\ error_message[b] = "str(e)" /\ result[b] # "None"
         /\ status[c] = "cancelled" /\ error_message[c] # "None" /\ result[c] = "None"

\* C32: whenever no run_queue call is in progress, is_running is false and
\* active_job is None; in particular after every run_queue call has ended.
C32_IdleMeansNotRunning ==
    pc["drv"] = "idle" => (~is_running /\ active_job = None)

\* The run_queue call of thread "drv" is past the resets of lines 112-113.
PastResets == InRun /\ pc["drv"] \notin {"rq106", "rq110", "rq112", "rq113"}

\* C33: a cancel call made before a run_queue call started has no effect on
\* that call.  As long as no cancel call was executing when the run started
\* and none was begun since, the run is as it is without any cancellation:
\* the cancel-current flag is clear, the cancel-queue flag is set only by a
\* failed job under stop_on_error, and no process was sent a termination.
C33_NoLeakAcrossRuns ==
    (PastResets /\ ~hist.cancelCalled /\ ~hist.inflight)
    => /\ ~cancel_current_job_requested
       /\ cancel_queue_requested
          => (stop_on_error /\ \E j \in Range(processed_jobs) : status[j] = "failed")
       /\ \A j \in JobIds : proc[j] # "terminated"

\* Both flags were still set by cancel calls of an earlier run when the second
\* run_queue call began; no cancel call since; the second run has launched a
\* job, whose process is running.
C33_Witness ==
    /\ PastResets /\ ~hist.cancelCalled /\ ~hist.inflight
    /\ hist.staleCurrent /\ hist.staleQueue
    /\ pc["drv"] = "pr214"
    /\ proc[job["drv"]] = "alive"

\* C34: every percentage passed to the progress callback lies between 0 and
\* 100 (0 and 100000 thousandths), also for a time above the duration.
C34_PercentageInRange ==
    \A i \in 1 .. Len(delivered) : delivered[i] >= 0 /\ delivered[i] <= 100000

\* A line whose time is above the duration was parsed, and 100 was delivered
\* for it.
C34_Witness ==
    /\ RunEnded
    /\ \E n \in Range(examined) :
         /\ output[n].progress
         /\ output[n].time > progress_duration_sec * 100
    /\ delivered # <<>>
    /\ delivered[Len(delivered)] = 100000

\* C35: a cancel_current_job call that returned True is not discarded: when
\* the call set the flag for the job that was active at its check, the flag
\* stays set until on_job_complete was invoked for that job.
C35_CancelTrueNotDiscarded ==
    ( /\ pc["ctl"] = "idle"
      /\ ret["ctl"] = Returned("cancel_current_job", "True")
      /\ hist.flagged # None
      /\ hist.flagged = hist.checked
      /\ job_completes[hist.flagged] = 0 )
    => cancel_current_job_requested

\* C36: a cancel_current_job call that passed its check while job J was active
\* sets the flag only while J or no job is active or before the next job's
\* flag reset of line 136, and terminates the process of J only.
C36_CancelHitsCheckedJob ==
    [][ /\ (pc["ctl"] = "cc275" /\ pc'["ctl"] = "cc280a")
           => \/ active_job \in {None, hist.checked}
              \/ pc["drv"] = "rq136"
        /\ (pc["ctl"] = "cc283b" /\ proc' # proc)
           => job["ctl"] = hist.checked ]_vars

\* C37: cancel_current_job never raises to its caller.
C37_CancelNeverRaises ==
    ~(ret["ctl"].op = "cancel_current_job" /\ ret["ctl"].kind = "raise")

\* C38: a job that was started never becomes cancelled: from preparing or
\* running it goes to completed or failed only, and the jobs that become
\* cancelled are pending jobs for which builder.run was never invoked.
C38_StartedNeverCancelled ==
    [][\A j \in JobIds :
         /\ status[j] \in {"preparing", "running"}
            => status'[j] \in {"preparing", "running", "completed", "failed"}
         /\ (status'[j] = "cancelled" /\ status[j] # "cancelled")
            => (status[j] = "pending" /\ ~started[j])]_vars

\* A run without stop_on_error that cancel_queue stopped has returned: the job
\* that was active failed on the exit of its process, a job behind it was
\* skipped and is cancelled.
C38_Witness ==
    /\ RunReturned
    /\ ~soe["drv"]
    /\ cancel_queue_requested
    /\ \E j, k \in Range(R) :
         /\ started[j] /\ Launched(j)
         /\ status[j] = "failed" /\ result[j] = "FfmpegProcessError"
         /\ ~started[k] /\ status[k] = "cancelled"

\* C39: whenever add_job raises, the pending queue is what it was before the
\* call.
C39_AddJobAtomicOnError ==
    [][( /\ ret'["ctl"].op = "add_job"
         /\ ret'["ctl"].kind = "raise"
         /\ (nJobs' # nJobs \/ ret'["ctl"] # ret["ctl"]) )
       => pending_queue' = pending_queue]_vars

\* C40: run_ffmpeg_with_progress eventually observes the exit of a process
\* that finishes its work, however much the process writes to its standard
\* output: the run ends.
C40_ExitEventuallyObserved == <>RunEnded

====
